---------------------------- MODULE Spec2Model ----------------------------
(***************************************************************************)
(* A model of openapi-mcp-bridge: the OpenAPI parser with its $ref         *)
(* resolution (src/src/parser.py), the API registry (src/src/registry.py)  *)
(* and the two search providers (src/src/search/fuzzy.py, embedding.py).   *)
(*                                                                         *)
(* JSON values are tagged records: JDict(d) with d a function from key     *)
(* strings to values, JList(l) with l a sequence of values, JStr(s) with s *)
(* a sequence of tokens (so that startswith and split act on something),   *)
(* JNull for None.  An exception leaving a function is the value           *)
(* Raise(name), which every caller passes on as Python does.               *)
(***************************************************************************)
EXTENDS Integers, Sequences, FiniteSets, TLC

VARIABLES
    p_phase,      \* position of the OpenAPIParser.parse call: idle, fetched, done
    p_raw,        \* the document _fetch_spec returned to the running parse call
    p_spec,       \* OpenAPIParser._spec
    p_components, \* OpenAPIParser._components
    p_order,      \* the order in which the set HTTP_METHODS is iterated
    p_result      \* what parse returned: a ParsedSpec, or Raise(..)

parserVars == <<p_phase, p_raw, p_spec, p_components, p_order, p_result>>

VARIABLES
    r_apis,       \* APIRegistry._apis : name -> APIConfig
    r_specs,      \* APIRegistry._specs : name -> ParsedSpec
    r_calls,      \* the register_api calls of other callers suspended at line 42
    r_started,    \* how many such calls were started
    r_event,      \* what the last step of a register_api call did
    lc_apis,      \* config.apis of the load_config call
    lc_index,     \* how many of them the loop of load_config has registered
    lc_state      \* its position: idle, loop, awaiting, done, raised, cancelled

registryVars == <<r_apis, r_specs, r_calls, r_started, r_event, lc_apis, lc_index, lc_state>>

VARIABLES
    s_threshold,  \* confidence_threshold of the providers, in hundredths
    s_call,       \* the search call that has returned and its caller has not yet consumed
    e_available,  \* whether sentence_transformers can be imported
    e_model,      \* the module global _model of search/embedding.py
    e_cache,      \* EmbeddingSearchProvider._embeddings_cache : key -> vector
    e_texts       \* EmbeddingSearchProvider._endpoint_texts : key -> text

searchVars == <<s_threshold, s_call, e_available, e_model, e_cache, e_texts>>

VARIABLES
    x_providers,  \* the EmbeddingSearchProvider instances of the process, by number
    x_event       \* what the last step on one of them did

providerVars == <<x_providers, x_event>>

VARIABLES
    c_a,          \* the arguments of a _cosine_similarity call
    c_b,
    c_score       \* what it returned

cosineVars == <<c_a, c_b, c_score>>

VARIABLES
    g_argument,    \* the destructive_methods argument the Guardrails object was built with
    g_destructive, \* Guardrails.destructive_methods
    g_call,        \* the arguments of the last check_operation call
    g_result       \* the GuardrailResult it returned

guardVars == <<g_argument, g_destructive, g_call, g_result>>

VARIABLES
    t_config,      \* the API names of config/apis.json
    t_initialized, \* the module global registry is not None
    t_executors,   \* the keys of the module global executors
    t_call,        \* the arguments of the last tool call
    t_issued,      \* the HTTP requests that call sent, in the order of sending
    t_response     \* the dict that call returned

toolVars == <<t_config, t_initialized, t_executors, t_call, t_issued, t_response>>

VARIABLES
    b_call,     \* the execute_batch call under way: requests, parallel, concurrency
    b_tasks,    \* where the executor.execute of each request stands
    b_results,  \* the ExecutionResult of each request that has one
    b_order,    \* the positions of the requests in the order their responses came
    b_result    \* the BatchResult of the call once it has returned

batchVars == <<b_call, b_tasks, b_results, b_order, b_result>>

VARIABLES
    d_swagger,         \* a Swagger 2.0 document
    d_openapi,         \* the OpenAPI 3 document with the same operations and schemas
    d_order,           \* the iteration order of HTTP_METHODS in this process
    d_parsed_swagger,  \* what parse returned for the first, None before
    d_parsed_openapi   \* what parse returned for the second, None before

dialectVars == <<d_swagger, d_openapi, d_order, d_parsed_swagger, d_parsed_openapi>>

VARIABLES
    r_spec,    \* self._spec, the document _resolve_ref walks
    r_obj,     \* the object _resolve_ref is given
    r_once,    \* what _resolve_ref(obj) returned
    r_twice    \* what _resolve_ref applied to that result returned

resolveVars == <<r_spec, r_obj, r_once, r_twice>>

VARIABLES
    w_endpoint,   \* the Endpoint whose searchable text is built
    w_fuzzy,      \* what FuzzySearchProvider._build_searchable_text returned for it
    w_embedding   \* what EmbeddingSearchProvider._build_searchable_text returned for it

textVars == <<w_endpoint, w_fuzzy, w_embedding>>

VARIABLES
    o_operation,    \* an operation object of a path item
    o_path_params,  \* the parameters of its path item
    o_endpoint      \* what _parse_operation returned for it, None before

operationVars == <<o_operation, o_path_params, o_endpoint>>

VARIABLES
    q_spec,        \* _spec of the one OpenAPIParser of an APIRegistry
    q_components,  \* its _components
    q_calls,       \* the parse calls on it: what each fetches and how far it is
    q_results,     \* what each parse call returned or raised
    q_log          \* the order in which the calls began and their fetches ended

sharedVars == <<q_spec, q_components, q_calls, q_results, q_log>>

VARIABLES
    z_config,     \* the names of config.apis in the configuration file, in order
    z_registry,   \* the global registry of the server: None, or its _apis and _specs
    z_executors,  \* the keys of the global executors
    z_init,       \* how far the one call inside initialize() is
    z_runs,       \* how many times initialize() was entered
    z_view        \* what the last tool call found when its body ran

lazyVars == <<z_config, z_registry, z_executors, z_init, z_runs, z_view>>

VARIABLES
    k_calls,      \* the search calls of two threads on one provider, and how far each is
    k_cache       \* the _embeddings_cache of that provider

threadVars == <<k_calls, k_cache>>

\* the variables of the parts below the search providers
restVars == <<cosineVars, threadVars, guardVars, toolVars, batchVars, dialectVars,
              resolveVars, textVars, operationVars, sharedVars, lazyVars>>

\* what a step of each of those parts leaves as it is
besidesCosine == <<parserVars, registryVars, searchVars, providerVars, threadVars,
                   guardVars, toolVars, batchVars, dialectVars, resolveVars, textVars,
                   operationVars, sharedVars, lazyVars>>
besidesThreads == <<parserVars, registryVars, searchVars, providerVars, cosineVars,
                    guardVars, toolVars, batchVars, dialectVars, resolveVars, textVars,
                    operationVars, sharedVars, lazyVars>>
besidesGuardrails == <<parserVars, registryVars, searchVars, providerVars, cosineVars,
                       threadVars, toolVars, batchVars, dialectVars, resolveVars,
                       textVars, operationVars, sharedVars, lazyVars>>
besidesTools == <<parserVars, registryVars, searchVars, providerVars, cosineVars,
                  threadVars, guardVars, batchVars, dialectVars, resolveVars, textVars,
                  operationVars, sharedVars, lazyVars>>
besidesBatch == <<parserVars, registryVars, searchVars, providerVars, cosineVars,
                  threadVars, guardVars, toolVars, dialectVars, resolveVars, textVars,
                  operationVars, sharedVars, lazyVars>>
besidesDialects == <<parserVars, registryVars, searchVars, providerVars, cosineVars,
                     threadVars, guardVars, toolVars, batchVars, resolveVars, textVars,
                     operationVars, sharedVars, lazyVars>>
besidesResolve == <<parserVars, registryVars, searchVars, providerVars, cosineVars,
                    threadVars, guardVars, toolVars, batchVars, dialectVars, textVars,
                    operationVars, sharedVars, lazyVars>>
besidesText == <<parserVars, registryVars, searchVars, providerVars, cosineVars,
                 threadVars, guardVars, toolVars, batchVars, dialectVars, resolveVars,
                 operationVars, sharedVars, lazyVars>>
besidesOperations == <<parserVars, registryVars, searchVars, providerVars, cosineVars,
                       threadVars, guardVars, toolVars, batchVars, dialectVars,
                       resolveVars, textVars, sharedVars, lazyVars>>
besidesShared == <<parserVars, registryVars, searchVars, providerVars, cosineVars,
                   threadVars, guardVars, toolVars, batchVars, dialectVars, resolveVars,
                   textVars, operationVars, lazyVars>>
besidesLazy == <<parserVars, registryVars, searchVars, providerVars, cosineVars,
                 threadVars, guardVars, toolVars, batchVars, dialectVars, resolveVars,
                 textVars, operationVars, sharedVars>>

vars == <<parserVars, registryVars, searchVars, providerVars, restVars>>

\* what a step of the parser alone leaves as it is
besidesParser == <<registryVars, searchVars, providerVars, restVars>>

----------------------------------------------------------------------------
(* JSON values *)

JNull == [t |-> "null"]
JStr(s) == [t |-> "str", s |-> s]
JDict(d) == [t |-> "dict", d |-> d]
JList(l) == [t |-> "list", l |-> l]
Raise(e) == [t |-> "raise", exc |-> e]

\* a plain one-token string
S(tok) == JStr(<<tok>>)
EmptyDict == JDict(<<>>)

IsDict(v) == v.t = "dict"
IsList(v) == v.t = "list"
IsRaise(v) == v.t = "raise"

\* dict.get(key, default)
Get(obj, key, default) == IF key \in DOMAIN obj.d THEN obj.d[key] ELSE default

\* Python truthiness of a JSON value: None, {}, [] and "" are false
Truthy(v) ==
    CASE v.t = "null" -> FALSE
      [] v.t = "dict" -> DOMAIN v.d # {}
      [] v.t = "list" -> v.l # <<>>
      [] v.t = "str" -> v.s # <<>>
      [] OTHER -> TRUE


JBool(b) == [t |-> "bool", b |-> b]

\* Python's `a or b`
Or(a, b) == IF Truthy(a) THEN a ELSE b

\* the keys of a mapping in the order the document lists them
RECURSIVE SetToSeq(_)
SetToSeq(K) ==
    IF K = {} THEN <<>>
    ELSE LET k == CHOOSE x \in K : TRUE IN <<k>> \o SetToSeq(K \ {k})

Keys(obj) == SetToSeq(DOMAIN obj.d)

\* the value bound to a name once, and what follows computed from it
Bind(value, Then(_)) == CHOOSE out \in {Then(v) : v \in {value}} : TRUE

\* a call whose exception leaves the caller, and what follows when it returns
Try(value, Then(_)) == Bind(value, LAMBDA v : IF IsRaise(v) THEN v ELSE Then(v))

RECURSIVE FirstRaise(_)
\* the exception that leaves a sequence of evaluations, JNull when none does
FirstRaise(seq) ==
    IF seq = <<>> THEN JNull
    ELSE IF IsRaise(Head(seq)) THEN Head(seq)
    ELSE FirstRaise(Tail(seq))

----------------------------------------------------------------------------
(* OpenAPIParser._resolve_ref *)

\* depth of nested _resolve_ref calls after which the interpreter raises
\* RecursionError
RecursionLimit == 10

\* ref.startswith("#/")
StartsWithHashSlash(ref) == Len(ref) >= 2 /\ ref[1] = "#" /\ ref[2] = "/"

RECURSIVE SplitSlash(_)
\* str.split("/") : the pieces between the "/" tokens, empty pieces included
SplitSlash(s) ==
    IF s = <<>> THEN << <<>> >>
    ELSE IF Head(s) = "/" THEN << <<>> >> \o SplitSlash(Tail(s))
    ELSE LET rest == SplitSlash(Tail(s))
         IN  << <<Head(s)>> \o Head(rest) >> \o Tail(rest)

\* parts = ref[2:].split("/")
RefParts(ref) == SplitSlash(SubSeq(ref, 3, Len(ref)))

NotFound == [t |-> "notfound"]

RECURSIVE NavigateOrEmpty(_, _)
\* Navigate written with current.get(part, {}): a missing segment yields {}
NavigateOrEmpty(current, parts) ==
    IF parts = <<>> THEN current
    ELSE IF IsDict(current) /\ Len(Head(parts)) = 1
            /\ Head(parts)[1] \in DOMAIN current.d
         THEN NavigateOrEmpty(current.d[Head(parts)[1]], Tail(parts))
    ELSE EmptyDict

RECURSIVE Navigate(_, _)
\* the walk from self._spec along the parts; a part is a key of the mapping
\* when it is the one token that names the key
Navigate(current, parts) ==
    IF parts = <<>> THEN current
    ELSE IF IsDict(current) /\ Len(Head(parts)) = 1
            /\ Head(parts)[1] \in DOMAIN current.d
         THEN Navigate(current.d[Head(parts)[1]], Tail(parts))
    ELSE NotFound

\* _resolve_ref that returns the target of a pointer as it finds it, without
\* the recursive call of line 246
ResolveRefTargetOnly(spec, obj, depth) ==
    IF ~IsDict(obj) THEN obj
    ELSE IF "$ref" \notin DOMAIN obj.d THEN obj
    ELSE LET ref == obj.d["$ref"] IN
         IF ref.t # "str" THEN Raise("AttributeError")
         ELSE IF ~StartsWithHashSlash(ref.s) THEN obj
         ELSE LET current == Navigate(spec, RefParts(ref.s)) IN
              IF current = NotFound THEN obj ELSE current

RECURSIVE ResolveRef(_, _, _)
ResolveRef(spec, obj, depth) ==
    IF depth > RecursionLimit THEN Raise("RecursionError")
    ELSE IF ~IsDict(obj) THEN obj
    ELSE IF "$ref" \notin DOMAIN obj.d THEN
        LET resolved == [key \in DOMAIN obj.d |->
                LET value == obj.d[key] IN
                IF IsDict(value) THEN ResolveRef(spec, value, depth + 1)
                ELSE IF IsList(value) THEN
                    LET items == [i \in 1..Len(value.l) |->
                                     ResolveRef(spec, value.l[i], depth + 1)]
                    IN  IF FirstRaise(items) # JNull THEN FirstRaise(items)
                        ELSE JList(items)
                ELSE value]
            raised == {key \in DOMAIN obj.d : IsRaise(resolved[key])}
        IN  IF raised # {} THEN resolved[CHOOSE key \in raised : TRUE]
            ELSE JDict(resolved)
    ELSE
        LET ref == obj.d["$ref"] IN
        IF ref.t # "str" THEN Raise("AttributeError")
        ELSE IF ~StartsWithHashSlash(ref.s) THEN obj
        ELSE LET current == Navigate(spec, RefParts(ref.s)) IN
             IF current = NotFound THEN obj
             ELSE ResolveRef(spec, current, depth + 1)

----------------------------------------------------------------------------
(* OpenAPIParser._parse_operation, _extract_endpoints, parse *)

HTTP_METHODS == {"get", "post", "put", "delete", "patch", "head", "options", "trace"}

\* str.upper() on the verbs
Upper(method) ==
    CASE method = "get" -> "GET"
      [] method = "post" -> "POST"
      [] method = "put" -> "PUT"
      [] method = "delete" -> "DELETE"
      [] method = "patch" -> "PATCH"
      [] method = "head" -> "HEAD"
      [] method = "options" -> "OPTIONS"
      [] method = "trace" -> "TRACE"
      [] method = "Delete" -> "DELETE"
      [] OTHER -> method

\* one Parameter(...) of the loop over all_params
ParseParameter(spec, raw) ==
    Try(ResolveRef(spec, raw, 1), LAMBDA param :
        IF ~IsDict(param) THEN Raise("AttributeError")
        ELSE Try(ResolveRef(spec, Get(param, "schema", EmptyDict), 1), LAMBDA schema :
                 [t |-> "param",
                  name |-> Get(param, "name", S("")),
                  location |-> Get(param, "in", S("query")),
                  required |-> Get(param, "required", JBool(FALSE)),
                  description |-> Get(param, "description", JNull),
                  param_schema |-> schema]))

RECURSIVE ParseParameters(_, _, _)
\* the loop of lines 150-160, `parameters` holding what it has appended
ParseParameters(spec, all_params, parameters) ==
    IF all_params = <<>> THEN JList(parameters)
    ELSE Try(ParseParameter(spec, Head(all_params)), LAMBDA parameter :
             ParseParameters(spec, Tail(all_params), Append(parameters, parameter)))

\* request_body_schema as lines 163-171 leave it
RequestBodySchema(spec, operation) ==
    IF ~Truthy(Get(operation, "requestBody", EmptyDict)) THEN JNull
    ELSE Try(ResolveRef(spec, Get(operation, "requestBody", EmptyDict), 1),
             LAMBDA request_body :
        IF ~IsDict(request_body) THEN Raise("AttributeError")
        ELSE LET content == Get(request_body, "content", EmptyDict)
                 json_content == Get(content, "application/json", EmptyDict)
             IN  IF ~Truthy(json_content) THEN JNull
                 ELSE ResolveRef(spec, Get(json_content, "schema", EmptyDict), 1))

RECURSIVE BodyParameterSchema(_, _, _)
\* the Swagger 2.0 fallback loop of lines 174-179: the schema of the first
\* parameter whose "in" is "body"; `found` is what request_body_schema holds
\* when no parameter is one
BodyParameterSchema(spec, all_params, found) ==
    IF all_params = <<>> THEN found
    ELSE Try(ResolveRef(spec, Head(all_params), 1), LAMBDA param :
             IF ~IsDict(param) THEN Raise("AttributeError")
             ELSE IF Get(param, "in", JNull) = S("body")
                  THEN ResolveRef(spec, Get(param, "schema", EmptyDict), 1)
             ELSE BodyParameterSchema(spec, Tail(all_params), found))

\* the response of line 184 with the three keys tried in the opposite order
SuccessResponseDefaultFirst(responses) ==
    Or(Or(Get(responses, "default", JNull), Get(responses, "201", JNull)),
       Get(responses, "200", JNull))

\* the response of line 184
SuccessResponse(responses) ==
    Or(Or(Get(responses, "200", JNull), Get(responses, "201", JNull)),
       Get(responses, "default", JNull))

\* response_schema, lines 182-194
ResponseSchema(spec, operation) ==
    IF ~Truthy(SuccessResponse(Get(operation, "responses", EmptyDict))) THEN JNull
    ELSE Try(ResolveRef(spec, SuccessResponse(Get(operation, "responses", EmptyDict)), 1),
             LAMBDA success_response :
        IF ~IsDict(success_response) THEN Raise("AttributeError")
        ELSE LET content == Get(success_response, "content", EmptyDict)
                 json_content == Get(content, "application/json", EmptyDict)
             IN  IF Truthy(json_content)
                 THEN ResolveRef(spec, Get(json_content, "schema", EmptyDict), 1)
                 ELSE IF "schema" \in DOMAIN success_response.d
                 THEN ResolveRef(spec, success_response.d["schema"], 1)
                 ELSE JNull)

ParseOperation(spec, path, method, operation, path_params) ==
    LET all_params == path_params \o Get(operation, "parameters", JList(<<>>)).l IN
    Try(ParseParameters(spec, all_params, <<>>), LAMBDA parameters :
    Try(RequestBodySchema(spec, operation), LAMBDA body :
    Try(IF Truthy(body) THEN body ELSE BodyParameterSchema(spec, all_params, body),
        LAMBDA request_body_schema :
    Try(ResponseSchema(spec, operation), LAMBDA response_schema :
        [t |-> "endpoint",
         path |-> path,
         method |-> Upper(method),
         summary |-> Get(operation, "summary", JNull),
         description |-> Get(operation, "description", JNull),
         operation_id |-> Get(operation, "operationId", JNull),
         tags |-> Get(operation, "tags", JList(<<>>)),
         parameters |-> parameters.l,
         request_body_schema |-> request_body_schema,
         response_schema |-> response_schema,
         security |-> Get(operation, "security", JList(<<>>))]))))

\* the (path, method) pairs the two loops of _extract_endpoints reach, in the
\* order they reach them: paths in document order, methods in the iteration
\* order of the set HTTP_METHODS
RECURSIVE OperationsOf(_, _, _)
OperationsOf(path, path_item, methods) ==
    IF methods = <<>> THEN <<>>
    ELSE IF Head(methods) \notin DOMAIN path_item.d
         THEN OperationsOf(path, path_item, Tail(methods))
    ELSE IF ~IsDict(path_item.d[Head(methods)])
         THEN OperationsOf(path, path_item, Tail(methods))
    ELSE << <<path, Head(methods)>> >> \o OperationsOf(path, path_item, Tail(methods))

RECURSIVE OperationPairs(_, _, _)
OperationPairs(paths, keys, methods) ==
    IF keys = <<>> THEN <<>>
    ELSE IF ~IsDict(paths.d[Head(keys)]) THEN OperationPairs(paths, Tail(keys), methods)
    ELSE OperationsOf(Head(keys), paths.d[Head(keys)], methods)
         \o OperationPairs(paths, Tail(keys), methods)

RECURSIVE ParseOperations(_, _, _, _)
\* endpoints.append(self._parse_operation(...)) for each pair in turn
ParseOperations(spec, paths, pairs, endpoints) ==
    IF pairs = <<>> THEN JList(endpoints)
    ELSE LET path == Head(pairs)[1]
             method == Head(pairs)[2]
         IN  Try(ParseOperation(spec, path, method, paths.d[path].d[method],
                                Get(paths.d[path], "parameters", JList(<<>>)).l),
                 LAMBDA endpoint :
                     ParseOperations(spec, paths, Tail(pairs), Append(endpoints, endpoint)))

ExtractEndpoints(spec, methods) ==
    LET paths == Get(spec, "paths", EmptyDict)
    IN  ParseOperations(spec, paths, OperationPairs(paths, Keys(paths), methods), <<>>)

\* self._components as lines 70-73 set it
ComponentsOf(raw_spec) ==
    LET schemas == Get(Get(raw_spec, "components", EmptyDict), "schemas", EmptyDict)
    IN  IF Truthy(schemas) THEN schemas ELSE Get(raw_spec, "definitions", EmptyDict)

ParsedSpec(title, version, description, endpoints) ==
    [t |-> "spec", title |-> title, version |-> version,
     description |-> description, endpoints |-> endpoints]

\* what parse returns (or raises) once _fetch_spec has returned raw_spec
ParseDocument(raw_spec, methods) ==
    IF ~IsDict(raw_spec) THEN Raise("AttributeError")
    ELSE Try(ExtractEndpoints(raw_spec, methods), LAMBDA endpoints :
             ParsedSpec(Get(Get(raw_spec, "info", EmptyDict), "title", S("Unknown API")),
                        Get(Get(raw_spec, "info", EmptyDict), "version", S("1.0.0")),
                        Get(Get(raw_spec, "info", EmptyDict), "description", JNull),
                        endpoints.l))

----------------------------------------------------------------------------
(* The documents parse is run on *)

Pointer(name) == <<"#", "/", "components", "/", "schemas", "/", name>>
Ref(ptr) == JDict("$ref" :> JStr(ptr))

PlainString == JDict([type |-> S("string")])
PetObject == JDict([type |-> S("object"), properties |-> JDict([name |-> PlainString])])
RefPet == Ref(Pointer("Pet"))
RefNode == Ref(Pointer("Node"))
\* a segment that is no key of components.schemas
RefMissing == Ref(Pointer("Missing"))
\* a pointer into another file: it does not start with "#/"
RefExternal == Ref(<<"other.yaml", "#", "/", "Pet">>)
RefInMapping == JDict([type |-> S("object"), properties |-> JDict([owner |-> RefPet])])
RefInList == JDict([allOf |-> JList(<<RefPet, PlainString>>)])
RefInListOfLists == JDict([type |-> S("array"), example |-> JList(<<JList(<<RefPet>>)>>)])
MissingInMapping == JDict([type |-> S("object"), properties |-> JDict([owner |-> RefMissing])])

RequestSchemas ==
    {PlainString, RefPet, RefNode, RefMissing, RefExternal, RefInMapping, RefInList,
     RefInListOfLists, MissingInMapping}
ResponseSchemas == {PlainString, RefPet, RefMissing}
ParameterSchemas == {PlainString, RefPet}
PetSchemas == {PetObject, RefNode, JDict([properties |-> JDict([friend |-> RefNode])])}
NodeSchemas ==
    {PlainString,
     JDict([properties |-> JDict([next |-> RefNode])]),
     RefPet,
     JDict([type |-> S("array"), items |-> JList(<<RefNode>>)])}
Layouts == {"one-path", "two-paths", "with-extension"}

JsonBody(schema) == JDict([content |-> JDict("application/json" :> JDict([schema |-> schema]))])

QueryParameter(name, schema) ==
    JDict([name |-> S(name), schema |-> schema] @@ ("in" :> S("query")))

PathParameter(name) ==
    JDict([name |-> S(name), required |-> JBool(TRUE), schema |-> PlainString]
          @@ ("in" :> S("path")))

PostOperation(x, y) ==
    JDict([summary |-> S("Add a pet"), operationId |-> S("addPet"),
           requestBody |-> JsonBody(x),
           responses |-> JDict("201" :> JsonBody(y))])

ListOperation(z, y) ==
    JDict([summary |-> S("List pets"), operationId |-> S("listPets"),
           parameters |-> JList(<<QueryParameter("limit", z)>>),
           responses |-> JDict("200" :> JsonBody(y))])

ItemOperation(id, y) ==
    JDict([operationId |-> S(id), responses |-> JDict("default" :> JsonBody(y))])

PathsOf(layout, x, y, z) ==
    CASE layout = "one-path" ->
            JDict("/pets" :> JDict([get |-> ListOperation(z, y),
                                    post |-> PostOperation(x, y),
                                    summary |-> S("The pets")]))
      [] layout = "two-paths" ->
            JDict("/pets" :> JDict([post |-> PostOperation(x, y)])
                  @@ "/pets/{petId}" :>
                        JDict([get |-> ItemOperation("getPet", y),
                               delete |-> ItemOperation("deletePet", PlainString),
                               parameters |-> JList(<<PathParameter("petId")>>)]))
      [] OTHER ->
            JDict("/pets" :> JDict([get |-> ListOperation(z, y),
                                    post |-> PostOperation(x, y)])
                  @@ "/pets/{petId}" :>
                        JDict([put |-> PostOperation(x, PlainString),
                               parameters |-> JList(<<PathParameter("petId")>>)])
                  @@ "x-internal" :> S("not a path item"))

Document(layout, x, y, z, pet, node) ==
    JDict([openapi |-> S("3.0.0"),
           info |-> JDict([title |-> S("Pets"), version |-> S("1.0")]),
           paths |-> PathsOf(layout, x, y, z),
           components |-> JDict([schemas |-> JDict([Pet |-> pet, Node |-> node])])])

Documents ==
    {Document(layout, x, y, z, pet, node) :
        layout \in Layouts, x \in RequestSchemas, y \in ResponseSchemas,
        z \in ParameterSchemas, pet \in PetSchemas, node \in NodeSchemas}

CanonicalOrder == <<"get", "post", "put", "delete", "patch", "head", "options", "trace">>
ReverseOrder == [i \in 1..Len(CanonicalOrder) |-> CanonicalOrder[Len(CanonicalOrder) + 1 - i]]
\* iteration orders of the set HTTP_METHODS
MethodOrders == {CanonicalOrder, ReverseOrder}

----------------------------------------------------------------------------
(* OpenAPIParser as a state machine *)

ParserInit ==
    /\ p_phase = "idle"
    /\ p_raw = JNull
    /\ p_spec = EmptyDict
    /\ p_components = EmptyDict
    /\ p_order \in MethodOrders
    /\ p_result = JNull

\* OpenAPIParser() : a new parser
NewParser ==
    /\ p_phase = "done"
    /\ p_phase' = "idle"
    /\ p_raw' = JNull
    /\ p_spec' = EmptyDict
    /\ p_components' = EmptyDict
    /\ p_result' = JNull
    /\ UNCHANGED p_order
    /\ UNCHANGED besidesParser

\* parse, line 66: the awaited _fetch_spec returns the document
ParseFetch(doc) ==
    /\ p_phase = "idle"
    /\ p_phase' = "fetched"
    /\ p_raw' = doc
    /\ UNCHANGED <<p_spec, p_components, p_order, p_result>>
    /\ UNCHANGED besidesParser

\* parse, lines 67-89: no await point between storing the document and
\* returning the ParsedSpec
ParseExtract ==
    /\ p_phase = "fetched"
    /\ p_phase' = "done"
    /\ p_spec' = p_raw
    /\ p_components' = ComponentsOf(p_raw)
    /\ p_result' = ParseDocument(p_spec', p_order)
    /\ UNCHANGED <<p_raw, p_order>>
    /\ UNCHANGED besidesParser

ParserNext ==
    \/ \E doc \in Documents : ParseFetch(doc)
    \/ ParseExtract
    \/ NewParser

----------------------------------------------------------------------------
(* APIRegistry *)

\* how many APIs the configuration file lists at most
MaxApis == 2
\* how many register_api calls other callers make at most
MaxCalls == 1

Names == {"petstore", "billing"}

GoodUrl == "http://good/openapi.json"
CyclicUrl == "http://cyclic/openapi.json"
DownUrl == "http://down/openapi.json"
SpecUrls == {GoodUrl, CyclicUrl, DownUrl}

APIConfig(name, spec_url) ==
    [name |-> name, spec_url |-> spec_url, base_url |-> "http://api", auth_type |-> "none"]

Configs == {APIConfig(name, url) : name \in Names, url \in SpecUrls}

GoodDocument ==
    Document("one-path", RefPet, PlainString, PlainString, PetObject, PlainString)
CyclicDocument ==
    Document("one-path", RefNode, PlainString, PlainString, PetObject,
             JDict([properties |-> JDict([next |-> RefNode])]))

\* what the awaited _fetch_spec gives for the URL: the document, or the
\* exception of the HTTP client
FetchSpec(spec_url) ==
    CASE spec_url = GoodUrl -> GoodDocument
      [] spec_url = CyclicUrl -> CyclicDocument
      [] OTHER -> Raise("ConnectError")

\* await self._parser.parse(config.spec_url)
ParseCall(spec_url, methods) ==
    Try(FetchSpec(spec_url), LAMBDA raw_spec : ParseDocument(raw_spec, methods))

\* what parse returns or raises for each URL, the parser of the registry
\* walking HTTP_METHODS in the canonical order
ParseOutcomes == [spec_url \in SpecUrls |-> ParseCall(spec_url, CanonicalOrder)]

\* what _fetch_spec returns or raises for each URL
FetchOutcomes == [spec_url \in SpecUrls |-> FetchSpec(spec_url)]

PlaceholderUnknownTitle(name, e) ==
    ParsedSpec(S("Unknown API"), S("unknown"), JNull, <<>>)

\* the ParsedSpec of lines 50-55
PlaceholderSpec(name, e) ==
    ParsedSpec(S(name), S("unknown"), JStr(<<"Failed to load spec: ", e>>), <<>>)

\* the classes `except Exception` catches
Caught(e) == e \in {"ConnectError", "RecursionError", "AttributeError"}

\* self._specs after lines 41-55, given what parse returned or raised
StoreSpec(specs, config, outcome) ==
    IF ~IsRaise(outcome) THEN (config.name :> outcome) @@ specs
    ELSE IF Caught(outcome.exc)
         THEN (config.name :> PlaceholderSpec(config.name, outcome.exc)) @@ specs
    ELSE specs

\* list_apis, one entry per name of _apis
ListApis ==
    [name \in DOMAIN r_apis |->
        [name |-> name,
         base_url |-> r_apis[name].base_url,
         description |-> IF name \in DOMAIN r_specs THEN r_specs[name].description ELSE JNull,
         auth_type |-> r_apis[name].auth_type,
         endpoint_count |-> IF name \in DOMAIN r_specs THEN Len(r_specs[name].endpoints) ELSE 0]]

\* get_spec : None when the name has no spec
GetSpec(name) == IF name \in DOMAIN r_specs THEN r_specs[name] ELSE JNull

\* get_api_names
GetApiNames == DOMAIN r_apis

NoEvent == [kind |-> "none", name |-> "", error |-> "", raised |-> FALSE]

ApiLists == UNION {[1..n -> Configs] : n \in 0..MaxApis}

RegistryInit ==
    /\ r_apis = <<>>
    /\ r_specs = <<>>
    /\ r_calls = {}
    /\ r_started = 0
    /\ r_event = NoEvent
    /\ lc_apis \in ApiLists
    /\ lc_index = 0
    /\ lc_state = "idle"

LoopStopsAfterFirst(index, apis) ==
    IF index >= 1 \/ index >= Len(apis) THEN "done" ELSE "loop"

\* the loop of load_config, lines 29-30, after `index` registrations
LoopState(index, apis) == IF index >= Len(apis) THEN "done" ELSE "loop"

\* load_config, line 27: the file is read and validated
LoadConfigRead ==
    /\ lc_state = "idle"
    /\ lc_state' = LoopState(0, lc_apis)
    /\ r_event' = NoEvent
    /\ UNCHANGED <<r_apis, r_specs, r_calls, r_started, lc_apis, lc_index>>
    /\ UNCHANGED <<searchVars, providerVars, restVars>>
    /\ UNCHANGED parserVars

\* load_config, line 27: config.load_config raises (no file, no JSON)
LoadConfigRaises ==
    /\ lc_state = "idle"
    /\ lc_state' = "raised"
    /\ r_event' = NoEvent
    /\ UNCHANGED <<r_apis, r_specs, r_calls, r_started, lc_apis, lc_index>>
    /\ UNCHANGED <<searchVars, providerVars, restVars>>
    /\ UNCHANGED parserVars

\* register_api up to its await, line 39
BeginRegistration(config) ==
    /\ r_apis' = (config.name :> config) @@ r_apis
    /\ r_event' = [kind |-> "begin", name |-> config.name, error |-> "", raised |-> FALSE]
    /\ UNCHANGED <<searchVars, providerVars, restVars>>

\* register_api from the completion of the fetch on, lines 42-55; parse runs
\* on the one parser of the registry
FinishRegistration(config) ==
    LET outcome == ParseOutcomes[config.spec_url]
        raw_spec == FetchOutcomes[config.spec_url]
        failed == IsRaise(outcome)
    IN  /\ r_specs' = StoreSpec(r_specs, config, outcome)
        /\ r_event' = [kind |-> "finish", name |-> config.name,
                       error |-> IF failed THEN outcome.exc ELSE "",
                       raised |-> failed /\ ~Caught(outcome.exc)]
        /\ p_spec' = IF IsRaise(raw_spec) THEN p_spec ELSE raw_spec
        /\ p_components' = IF IsRaise(raw_spec) THEN p_components
                           ELSE ComponentsOf(raw_spec)
        /\ UNCHANGED <<searchVars, providerVars, restVars>>

\* load_config, line 30: the loop calls register_api, which runs to its await
LoadConfigBegin ==
    /\ lc_state = "loop"
    /\ BeginRegistration(lc_apis[lc_index + 1])
    /\ lc_state' = "awaiting"
    /\ UNCHANGED <<r_specs, r_calls, r_started, lc_apis, lc_index>>
    /\ UNCHANGED parserVars

\* load_config, line 30: the awaited register_api returns
LoadConfigResume ==
    /\ lc_state = "awaiting"
    /\ FinishRegistration(lc_apis[lc_index + 1])
    /\ lc_index' = lc_index + 1
    /\ lc_state' = IF r_event'.raised THEN "raised" ELSE LoopState(lc_index + 1, lc_apis)
    /\ UNCHANGED <<r_apis, r_calls, r_started, lc_apis>>
    /\ UNCHANGED <<p_phase, p_raw, p_order, p_result>>

\* register_api called by another task, up to its await
RegisterBegin(config) ==
    /\ r_started < MaxCalls
    /\ config \notin r_calls
    /\ BeginRegistration(config)
    /\ r_calls' = r_calls \cup {config}
    /\ r_started' = r_started + 1
    /\ UNCHANGED <<r_specs, lc_apis, lc_index, lc_state>>
    /\ UNCHANGED parserVars

\* the fetch of such a call completes
RegisterResume(config) ==
    /\ config \in r_calls
    /\ FinishRegistration(config)
    /\ r_calls' = r_calls \ {config}
    /\ UNCHANGED <<r_apis, r_started, lc_apis, lc_index, lc_state>>
    /\ UNCHANGED <<p_phase, p_raw, p_order, p_result>>

\* register_api suspended at line 42, its task cancelled: CancelledError is no
\* Exception, the handler of line 47 does not run
CancelRegistration(config) ==
    /\ r_event' = [kind |-> "cancelled", name |-> config.name, error |-> "CancelledError",
                   raised |-> TRUE]
    /\ UNCHANGED <<r_apis, r_specs>>
    /\ UNCHANGED parserVars
    /\ UNCHANGED <<searchVars, providerVars, restVars>>

\* the task awaiting load_config is cancelled
LoadConfigCancelled ==
    /\ lc_state = "awaiting"
    /\ CancelRegistration(lc_apis[lc_index + 1])
    /\ lc_state' = "cancelled"
    /\ UNCHANGED <<r_calls, r_started, lc_apis, lc_index>>

\* the task of another caller of register_api is cancelled
RegisterCancelled(config) ==
    /\ config \in r_calls
    /\ CancelRegistration(config)
    /\ r_calls' = r_calls \ {config}
    /\ UNCHANGED <<r_started, lc_apis, lc_index, lc_state>>

RegistryNext ==
    \/ LoadConfigRead
    \/ LoadConfigRaises
    \/ LoadConfigBegin
    \/ LoadConfigResume
    \/ LoadConfigCancelled
    \/ \E config \in Configs : RegisterBegin(config)
    \/ \E config \in Configs : RegisterResume(config)
    \/ \E config \in Configs : RegisterCancelled(config)

\* the registrations when no task is cancelled: every call runs to its end
CompletingNext ==
    \/ LoadConfigRead
    \/ LoadConfigRaises
    \/ LoadConfigBegin
    \/ LoadConfigResume
    \/ \E config \in Configs : RegisterBegin(config)
    \/ \E config \in Configs : RegisterResume(config)

----------------------------------------------------------------------------
(* Search providers : strings *)

\* A str is the sequence of its characters; None and "" are both <<>>, the
\* code tests them for truth only.

\* str.lower on the letters the model uses
LowerOf ==
    [c \in {"D", "E", "F", "G", "L", "P", "T"} |->
        CASE c = "D" -> "d" [] c = "E" -> "e" [] c = "F" -> "f" [] c = "G" -> "g"
          [] c = "L" -> "l" [] c = "P" -> "p" [] c = "T" -> "t"]

\* char.isupper()
IsUpper(char) == char \in DOMAIN LowerOf

\* char.lower()
CharLower(char) == IF IsUpper(char) THEN LowerOf[char] ELSE char

\* str.lower()
StrLower(str) == [i \in 1..Len(str) |-> CharLower(str[i])]

\* str.replace(old, new) for a one-character old
RECURSIVE Replace(_, _, _)
Replace(str, old, new) ==
    IF str = <<>> THEN <<>>
    ELSE (IF Head(str) = old THEN new ELSE <<Head(str)>>) \o Replace(Tail(str), old, new)

\* sep.join(parts)
RECURSIVE Join(_, _)
Join(parts, sep) ==
    IF parts = <<>> THEN <<>>
    ELSE IF Len(parts) = 1 THEN parts[1]
    ELSE parts[1] \o sep \o Join(Tail(parts), sep)

\* the loop of lines 76-83 over the characters of operation_id
RECURSIVE CamelWords(_, _, _)
CamelWords(op_id, words, current_word) ==
    IF op_id = <<>>
    THEN IF current_word # <<>> THEN Append(words, current_word) ELSE words
    ELSE IF IsUpper(Head(op_id)) /\ current_word # <<>>
    THEN CamelWords(Tail(op_id), Append(words, current_word), <<CharLower(Head(op_id))>>)
    ELSE CamelWords(Tail(op_id), words, Append(current_word, Head(op_id)))

\* path.replace("/", " ").replace("{", "").replace("}", "")
PathWords(path) == Replace(Replace(Replace(path, "/", <<" ">>), "{", <<>>), "}", <<>>)

\* _build_searchable_text, the same code in both providers
BuildSearchableText(endpoint) ==
    Join((IF endpoint.summary # <<>> THEN <<endpoint.summary>> ELSE <<>>)
         \o (IF endpoint.description # <<>> THEN <<endpoint.description>> ELSE <<>>)
         \o (IF endpoint.operation_id # <<>>
             THEN <<Join(CamelWords(endpoint.operation_id, <<>>, <<>>), <<" ">>)>>
             ELSE <<>>)
         \o endpoint.tags
         \o <<PathWords(endpoint.path)>>
         \o <<StrLower(endpoint.method)>>,
         <<" ">>)

----------------------------------------------------------------------------
(* Search providers : endpoints, scores and results *)

\* how many endpoints a search is given at most
MaxEndpoints == 2
\* the largest limit of a search
MaxLimit == 2

\* the fields of an Endpoint that the search providers read
Endpoint(path, method, summary, operation_id, tags) ==
    [path |-> path, method |-> method, summary |-> summary, description |-> <<>>,
     operation_id |-> operation_id, tags |-> tags]

\* GET /p "All" listPets
ListPets ==
    Endpoint(<<"/", "p">>, <<"G", "E", "T">>, <<"A", "l", "l">>,
             <<"l", "i", "s", "t", "P", "e", "t", "s">>, <<>>)

\* GET /p again, as a re-registered document, or another API, describes it
FindPets ==
    Endpoint(<<"/", "p">>, <<"G", "E", "T">>, <<"F", "i", "n", "d">>,
             <<>>, << <<"p", "e", "t">> >>)

\* DELETE /p/{id} deletePet
DeletePet ==
    Endpoint(<<"/", "p", "/", "{", "i", "d", "}">>, <<"D", "E", "L", "E", "T", "E">>, <<>>,
             <<"d", "e", "l", "e", "t", "e", "P", "e", "t">>, <<>>)

Endpoints == {ListPets, FindPets, DeletePet}

EndpointLists == UNION {[1..n -> Endpoints] : n \in 0..MaxEndpoints}

Limits == 1..MaxLimit

Queries == {<<"p", "e", "t", "s">>, <<"D", "e", "l">>}

\* confidence_threshold=0.4, the default and what the server passes
DefaultThreshold == 40
\* a provider constructed with confidence_threshold=0.5
RaisedThreshold == 50
Thresholds == {DefaultThreshold, RaisedThreshold}

\* Scores are in hundredths: 40 is 0.4.

\* values of fuzz.token_set_ratio, an integer of 0..100
RatioLevels == {39, 40, 100}

\* the arguments token_set_ratio gets in one search
RatioArguments(query, endpoints) ==
    {<<StrLower(query), StrLower(BuildSearchableText(endpoints[i]))>> : i \in 1..Len(endpoints)}

\* what token_set_ratio may be on those arguments: a function of its two
\* arguments with values in 0..100
Ratios(query, endpoints) == [RatioArguments(query, endpoints) -> RatioLevels]

\* _calculate_similarity : token_set_ratio(query.lower(), text.lower()) / 100.0
CalculateSimilarity(ratio, query, text) == ratio[<<StrLower(query), StrLower(text)>>]

LowConfidenceInclusive(score, threshold) == score <= threshold

\* low_confidence=score < self.confidence_threshold
LowConfidence(score, threshold) == score < threshold

\* a SearchResult; position tells which element of the input list the
\* endpoint object is
SearchResult(position, endpoint, score, low_confidence) ==
    [position |-> position, endpoint |-> endpoint, similarity_score |-> score,
     low_confidence |-> low_confidence]

\* where list.sort puts a result among results already in descending order:
\* behind every result whose score is not lower
InsertDescending(sorted, result) ==
    LET before == Cardinality({i \in 1..Len(sorted) :
                       sorted[i].similarity_score >= result.similarity_score})
    IN  SubSeq(sorted, 1, before) \o <<result>> \o SubSeq(sorted, before + 1, Len(sorted))

InsertBeforeTies(sorted, result) ==
    LET before == Cardinality({i \in 1..Len(sorted) :
                       sorted[i].similarity_score > result.similarity_score})
    IN  SubSeq(sorted, 1, before) \o <<result>> \o SubSeq(sorted, before + 1, Len(sorted))

RECURSIVE SortInto(_, _)
SortInto(sorted, results) ==
    IF results = <<>> THEN sorted
    ELSE SortInto(InsertDescending(sorted, Head(results)), Tail(results))

RECURSIVE SortIntoBeforeTies(_, _)
SortIntoBeforeTies(sorted, results) ==
    IF results = <<>> THEN sorted
    ELSE SortIntoBeforeTies(InsertBeforeTies(sorted, Head(results)), Tail(results))

SortTiesReversed(results) == SortIntoBeforeTies(<<>>, results)

\* results.sort(key=lambda r: r.similarity_score, reverse=True) : the sort of
\* Python is stable, with reverse=True too
SortDescending(results) == SortInto(<<>>, results)

SliceExclusive(results, limit) ==
    SubSeq(results, 1, IF limit - 1 < Len(results) THEN limit - 1 ELSE Len(results))

\* results[:limit]
Slice(results, limit) ==
    IF limit >= 0
    THEN SubSeq(results, 1, IF limit < Len(results) THEN limit ELSE Len(results))
    ELSE SubSeq(results, 1, IF Len(results) + limit > 0 THEN Len(results) + limit ELSE 0)

\* FuzzySearchProvider.search
FuzzySearchResults(ratio, threshold, query, endpoints, limit) ==
    Slice(SortDescending(
              [i \in 1..Len(endpoints) |->
                  SearchResult(i, endpoints[i],
                      CalculateSimilarity(ratio, query, BuildSearchableText(endpoints[i])),
                      LowConfidence(
                          CalculateSimilarity(ratio, query, BuildSearchableText(endpoints[i])),
                          threshold))]),
          limit)

----------------------------------------------------------------------------
(* Search providers : EmbeddingSearchProvider *)

ModelName == "all-MiniLM-L6-v2"

\* _get_endpoint_key : f"{endpoint.method}:{endpoint.path}"
GetEndpointKey(endpoint) == endpoint.method \o <<":">> \o endpoint.path

\* model.encode : the vector of the model for a text, a function of the text
Encode(text) ==
    CASE text = BuildSearchableText(ListPets) -> <<3, 4>>
      [] text = BuildSearchableText(FindPets) -> <<4, 3>>
      [] text = BuildSearchableText(DeletePet) -> <<-4, 3>>
      [] text = <<"p", "e", "t", "s">> -> <<3, 4>>
      [] text = <<"D", "e", "l">> -> <<0, 5>>
      [] OTHER -> <<0, 0>>

\* np.dot
Dot(a, b) == a[1] * b[1] + a[2] * b[2]

\* np.linalg.norm, of vectors whose norm is an integer
Norm(a) == CHOOSE n \in 0..Dot(a, a) : n * n = Dot(a, a)

\* _cosine_similarity, in hundredths
CosineSimilarity(a, b) ==
    IF Norm(a) = 0 \/ Norm(b) = 0 THEN 0
    ELSE ((Dot(a, b) * 100) \div (Norm(a) * Norm(b)) + 100) \div 2

\* the positions of the endpoints _ensure_embeddings embeds: the test of line
\* 119 reads the cache as it was before the call, line 130 writes it afterwards
PositionsToEmbed(cache, endpoints) ==
    {i \in 1..Len(endpoints) : GetEndpointKey(endpoints[i]) \notin DOMAIN cache}

\* the last of those positions that has the key: the later assignment of the
\* loops of lines 117-123 and 129-130 stays
LastToEmbed(cache, endpoints, key) ==
    CHOOSE i \in PositionsToEmbed(cache, endpoints) :
        /\ GetEndpointKey(endpoints[i]) = key
        /\ \A j \in PositionsToEmbed(cache, endpoints) :
              GetEndpointKey(endpoints[j]) = key => j <= i

KeysToEmbed(cache, endpoints) ==
    {GetEndpointKey(endpoints[i]) : i \in PositionsToEmbed(cache, endpoints)}

\* lines 129-130 with the outputs of encode taken in the opposite order
NewEmbeddingsReversed(cache, endpoints) ==
    [key \in KeysToEmbed(cache, endpoints) |->
        Encode(BuildSearchableText(
            endpoints[Len(endpoints) + 1 - LastToEmbed(cache, endpoints, key)]))]

\* what lines 129-130 assign: the vector of each key that was missing
NewEmbeddings(cache, endpoints) ==
    [key \in KeysToEmbed(cache, endpoints) |->
        Encode(BuildSearchableText(endpoints[LastToEmbed(cache, endpoints, key)]))]

\* _embeddings_cache after _ensure_embeddings
EnsureEmbeddings(cache, endpoints) == NewEmbeddings(cache, endpoints) @@ cache

\* _endpoint_texts after _ensure_embeddings
EnsureTexts(cache, texts, endpoints) ==
    [key \in KeysToEmbed(cache, endpoints) |->
        BuildSearchableText(endpoints[LastToEmbed(cache, endpoints, key)])]
    @@ texts

\* the loop of lines 182-195: one result for each endpoint whose key the cache has
ScoredResults(cache, threshold, query, endpoints) ==
    SelectSeq([i \in 1..Len(endpoints) |->
                  IF GetEndpointKey(endpoints[i]) \in DOMAIN cache
                  THEN SearchResult(i, endpoints[i],
                           CosineSimilarity(Encode(query), cache[GetEndpointKey(endpoints[i])]),
                           LowConfidence(
                               CosineSimilarity(Encode(query),
                                                cache[GetEndpointKey(endpoints[i])]),
                               threshold))
                  ELSE SearchResult(0, endpoints[i], 0, FALSE)],
              LAMBDA result : result.position # 0)

\* EmbeddingSearchProvider.search from line 181 on, on the cache that
\* _ensure_embeddings left
EmbeddingSearchResults(cache, threshold, query, endpoints, limit) ==
    Slice(SortDescending(ScoredResults(cache, threshold, query, endpoints)), limit)

----------------------------------------------------------------------------
(* Search providers : the calls *)

NoCall == [provider |-> "none"]

Call(provider, query, endpoints, limit, ratio, raised, results) ==
    [provider |-> provider, query |-> query, endpoints |-> endpoints, limit |-> limit,
     ratio |-> ratio, raised |-> raised, results |-> results]

SearchInit ==
    /\ s_threshold \in Thresholds
    /\ s_call = NoCall
    /\ e_available \in BOOLEAN
    /\ e_model = "none"
    /\ e_cache = <<>>
    /\ e_texts = <<>>

\* FuzzySearchProvider.search(query, endpoints, limit); ratio is what
\* token_set_ratio gives during the call
FuzzySearch(query, endpoints, limit, ratio) ==
    /\ s_call = NoCall
    /\ s_call' = Call("fuzzy", query, endpoints, limit, ratio, "",
                      FuzzySearchResults(ratio, s_threshold, query, endpoints, limit))
    /\ UNCHANGED <<s_threshold, e_available, e_model, e_cache, e_texts>>
    /\ UNCHANGED <<parserVars, registryVars, providerVars, restVars>>

\* EmbeddingSearchProvider.search on an empty list, line 172
EmbeddingSearchEmpty(query, limit) ==
    /\ s_call = NoCall
    /\ s_call' = Call("embedding", query, <<>>, limit, <<>>, "", <<>>)
    /\ UNCHANGED <<s_threshold, e_available, e_model, e_cache, e_texts>>
    /\ UNCHANGED <<parserVars, registryVars, providerVars, restVars>>

\* EmbeddingSearchProvider.search when _get_model raises, lines 26-30
EmbeddingSearchRaises(query, endpoints, limit) ==
    /\ s_call = NoCall
    /\ endpoints # <<>>
    /\ e_model = "none" /\ ~e_available
    /\ s_call' = Call("embedding", query, endpoints, limit, <<>>, "ImportError", <<>>)
    /\ UNCHANGED <<s_threshold, e_available, e_model, e_cache, e_texts>>
    /\ UNCHANGED <<parserVars, registryVars, providerVars, restVars>>

\* EmbeddingSearchProvider.search(query, endpoints, limit), the model loaded
\* or loading
EmbeddingSearch(query, endpoints, limit) ==
    /\ s_call = NoCall
    /\ endpoints # <<>>
    /\ e_model # "none" \/ e_available
    /\ e_model' = ModelName
    /\ e_cache' = EnsureEmbeddings(e_cache, endpoints)
    /\ e_texts' = EnsureTexts(e_cache, e_texts, endpoints)
    /\ s_call' = Call("embedding", query, endpoints, limit, <<>>, "",
                      EmbeddingSearchResults(e_cache', s_threshold, query, endpoints, limit))
    /\ UNCHANGED <<s_threshold, e_available>>
    /\ UNCHANGED <<parserVars, registryVars, providerVars, restVars>>

\* EmbeddingSearchProvider.clear_cache
ClearCache ==
    /\ s_call = NoCall
    /\ e_cache # <<>>
    /\ e_cache' = <<>>
    /\ e_texts' = <<>>
    /\ UNCHANGED <<s_threshold, s_call, e_available, e_model>>
    /\ UNCHANGED <<parserVars, registryVars, providerVars, restVars>>

\* the caller has taken the results, or the exception
Return ==
    /\ s_call # NoCall
    /\ s_call' = NoCall
    /\ UNCHANGED <<s_threshold, e_available, e_model, e_cache, e_texts>>
    /\ UNCHANGED <<parserVars, registryVars, providerVars, restVars>>

SearchNext ==
    \/ \E query \in Queries, endpoints \in EndpointLists, limit \in Limits :
          \E ratio \in Ratios(query, endpoints) : FuzzySearch(query, endpoints, limit, ratio)
    \/ \E query \in Queries, limit \in Limits : EmbeddingSearchEmpty(query, limit)
    \/ \E query \in Queries, endpoints \in EndpointLists, limit \in Limits :
          EmbeddingSearchRaises(query, endpoints, limit)
    \/ \E query \in Queries, endpoints \in EndpointLists, limit \in Limits :
          EmbeddingSearch(query, endpoints, limit)
    \/ ClearCache
    \/ Return

----------------------------------------------------------------------------
(* Several EmbeddingSearchProvider instances in one process *)

\* how many instances the process constructs at most
MaxInstances == 2

OtherModelName == "paraphrase-MiniLM-L3-v2"
ModelNames == {ModelName, OtherModelName}

\* EmbeddingSearchProvider.__init__ : the fields of a new instance
NewProvider(model_name) == [model_name |-> model_name, cache |-> <<>>, texts |-> <<>>]

ProviderEvent(kind, instance, model, loaded, raised) ==
    [kind |-> kind, instance |-> instance, model |-> model, loaded |-> loaded,
     raised |-> raised]

NoProviderEvent == ProviderEvent("none", 0, "none", FALSE, "")

ModelReloaded(model, model_name) == model_name

\* _get_model(model_name) when the load succeeds: the global is set only
\* while it is None, lines 20-24, and returned, line 31
GetModel(model, model_name) == IF model = "none" THEN model_name ELSE model

\* what no step on the instances touches
ProvidersFrame ==
    UNCHANGED <<parserVars, registryVars, restVars,
                s_threshold, s_call, e_available, e_cache, e_texts>>

ProvidersInit ==
    /\ x_providers = <<>>
    /\ x_event = NoProviderEvent
    /\ e_model = "none"
    /\ e_available \in BOOLEAN
    /\ s_threshold = DefaultThreshold
    /\ s_call = NoCall
    /\ e_cache = <<>>
    /\ e_texts = <<>>

\* EmbeddingSearchProvider(model_name=...), lines 54-57
Construct(model_name) ==
    /\ Len(x_providers) < MaxInstances
    /\ x_providers' = Append(x_providers, NewProvider(model_name))
    /\ x_event' = ProviderEvent("construct", Len(x_providers) + 1, e_model, FALSE, "")
    /\ UNCHANGED e_model
    /\ ProvidersFrame

\* search on an empty list, line 172
ProviderSearchEmpty(instance) ==
    /\ instance \in DOMAIN x_providers
    /\ x_event' = ProviderEvent("search-empty", instance, e_model, FALSE, "")
    /\ UNCHANGED <<x_providers, e_model>>
    /\ ProvidersFrame

\* search when the import of sentence_transformers fails, lines 26-30
ProviderSearchImportError(instance, endpoints) ==
    /\ instance \in DOMAIN x_providers
    /\ endpoints # <<>>
    /\ e_model = "none" /\ ~e_available
    /\ x_event' = ProviderEvent("search", instance, e_model, FALSE, "ImportError")
    /\ UNCHANGED <<x_providers, e_model>>
    /\ ProvidersFrame

\* search when SentenceTransformer(model_name) raises (no such model, no
\* network): line 24 does not assign, the exception is no ImportError
ProviderSearchLoadError(instance, endpoints) ==
    /\ instance \in DOMAIN x_providers
    /\ endpoints # <<>>
    /\ e_model = "none" /\ e_available
    /\ x_event' = ProviderEvent("search", instance, e_model, FALSE, "OSError")
    /\ UNCHANGED <<x_providers, e_model>>
    /\ ProvidersFrame

\* search with the model loaded, or loading now
ProviderSearch(instance, endpoints) ==
    /\ instance \in DOMAIN x_providers
    /\ endpoints # <<>>
    /\ e_model # "none" \/ e_available
    /\ e_model' = GetModel(e_model, x_providers[instance].model_name)
    /\ x_providers' =
          [x_providers EXCEPT
              ![instance].cache = EnsureEmbeddings(@, endpoints),
              ![instance].texts =
                  EnsureTexts(x_providers[instance].cache, @, endpoints)]
    /\ x_event' = ProviderEvent("search", instance, e_model', e_model' # e_model, "")
    /\ ProvidersFrame

\* clear_cache
ProviderClearCache(instance) ==
    /\ instance \in DOMAIN x_providers
    /\ x_providers[instance].cache # <<>>
    /\ x_providers' = [x_providers EXCEPT ![instance].cache = <<>>, ![instance].texts = <<>>]
    /\ x_event' = ProviderEvent("clear", instance, e_model, FALSE, "")
    /\ UNCHANGED e_model
    /\ ProvidersFrame

ProvidersNext ==
    \/ \E model_name \in ModelNames : Construct(model_name)
    \/ \E instance \in 1..MaxInstances : ProviderSearchEmpty(instance)
    \/ \E instance \in 1..MaxInstances, endpoints \in EndpointLists :
          ProviderSearchImportError(instance, endpoints)
    \/ \E instance \in 1..MaxInstances, endpoints \in EndpointLists :
          ProviderSearchLoadError(instance, endpoints)
    \/ \E instance \in 1..MaxInstances, endpoints \in EndpointLists :
          ProviderSearch(instance, endpoints)
    \/ \E instance \in 1..MaxInstances : ProviderClearCache(instance)

----------------------------------------------------------------------------
(* _cosine_similarity in floating point *)

\* The floats of the code have 24 or 53 bits of mantissa; the model rounds
\* every operation the same way, to nearest and ties to even, to MantissaBits
\* bits.  A float is m * 2^e with 2^(MantissaBits-1) <= |m| < 2^MantissaBits,
\* or zero.
MantissaBits == 4

\* the largest absolute value of a vector component
MaxComponent == 2

RECURSIVE Pow2(_)
Pow2(n) == IF n = 0 THEN 1 ELSE 2 * Pow2(n - 1)

FloatZero == [m |-> 0, e |-> 0]

\* the float nearest to n/d * 2^e, for n > 0 and d > 0
RECURSIVE RoundPositive(_, _, _)
RoundPositive(n, d, e) ==
    IF n >= d * Pow2(MantissaBits) THEN RoundPositive(n, 2 * d, e + 1)
    ELSE IF n < d * Pow2(MantissaBits - 1) THEN RoundPositive(2 * n, d, e - 1)
    ELSE LET q == n \div d
             r == n % d
             m == IF 2 * r > d \/ (2 * r = d /\ q % 2 = 1) THEN q + 1 ELSE q
         IN  IF m = Pow2(MantissaBits) THEN [m |-> m \div 2, e |-> e + 1]
             ELSE [m |-> m, e |-> e]

FloatNeg(x) == [m |-> 0 - x.m, e |-> x.e]

\* the float nearest to n/d * 2^e, for d > 0
Round(n, d, e) ==
    IF n = 0 THEN FloatZero
    ELSE IF n > 0 THEN RoundPositive(n, d, e)
    ELSE FloatNeg(RoundPositive(0 - n, d, e))

FromInt(i) == Round(i, 1, 0)

\* x * y
FloatMul(x, y) == Round(x.m * y.m, 1, x.e + y.e)

\* x / y, y not zero
FloatDiv(x, y) ==
    IF y.m > 0 THEN Round(x.m, y.m, x.e - y.e)
    ELSE Round(0 - x.m, 0 - y.m, x.e - y.e)

\* x + y
FloatAdd(x, y) ==
    IF x.e <= y.e THEN Round(x.m + y.m * Pow2(y.e - x.e), 1, x.e)
    ELSE Round(x.m * Pow2(x.e - y.e) + y.m, 1, y.e)

\* the integer part of the square root of n, bit by bit from `bit` down
RECURSIVE SqrtBits(_, _, _)
SqrtBits(n, bit, q) ==
    IF bit = 0 THEN q
    ELSE IF (q + bit) * (q + bit) <= n THEN SqrtBits(n, bit \div 2, q + bit)
    ELSE SqrtBits(n, bit \div 2, q)

\* the square root of m * 4^k, k = MantissaBits + 2, rounded: an inexact root
\* lies between q and q + 1 and rounds as q + 1/2 does
SqrtScaled(m, half_e) ==
    LET n == m * Pow2(2 * (MantissaBits + 2))
        q == SqrtBits(n, Pow2(2 * MantissaBits + 2), 0)
    IN  IF q * q = n THEN Round(q, 1, half_e - (MantissaBits + 2))
        ELSE Round(2 * q + 1, 2, half_e - (MantissaBits + 2))

\* sqrt(x), x not negative
FloatSqrt(x) ==
    IF x.m = 0 THEN FloatZero
    ELSE IF x.e % 2 = 0 THEN SqrtScaled(x.m, x.e \div 2)
    ELSE SqrtScaled(2 * x.m, (x.e - 1) \div 2)

\* np.linalg.norm(a) : sqrt(dot(a, a)); the dot product of small whole
\* numbers is exact
FloatNorm(a) == FloatSqrt(FromInt(Dot(a, a)))

\* _cosine_similarity, lines 143-152
FloatCosineSimilarity(a, b) ==
    IF FloatNorm(a).m = 0 \/ FloatNorm(b).m = 0 THEN FloatZero
    ELSE FloatDiv(FloatAdd(FloatDiv(FromInt(Dot(a, b)),
                                    FloatMul(FloatNorm(a), FloatNorm(b))),
                           FromInt(1)),
                  FromInt(2))

Components == (0 - MaxComponent)..MaxComponent
Vectors == {<<x, y>> : x \in Components, y \in Components}

NoScore == [m |-> 0, e |-> 1]

CosineInit ==
    /\ c_a \in Vectors
    /\ c_b \in Vectors
    /\ c_score = NoScore

CosineFrame == UNCHANGED besidesCosine

\* self._cosine_similarity(a, b)
CosineCall ==
    /\ c_score = NoScore
    /\ c_score' = FloatCosineSimilarity(c_a, c_b)
    /\ UNCHANGED <<c_a, c_b>>
    /\ CosineFrame

\* the caller has taken the score
CosineReturn ==
    /\ c_score # NoScore
    /\ c_score' = NoScore
    /\ UNCHANGED <<c_a, c_b>>
    /\ CosineFrame

CosineStep ==
    \/ CosineCall
    \/ CosineReturn

----------------------------------------------------------------------------
(* Two threads searching on one EmbeddingSearchProvider *)

\* search has no await: calls interleave only when threads make them.  A call
\* is interrupted between reading the cache (lines 117-123), writing it after
\* model.encode (lines 129-130) and the scoring loop (lines 178-200).
Threads == {"a", "b"}

ThreadCall(query, endpoints, limit, pc, pending, results) ==
    [query |-> query, endpoints |-> endpoints, limit |-> limit, pc |-> pc,
     pending |-> pending, results |-> results]

NonEmptyLists == EndpointLists \ {<<>>}

ThreadsInit ==
    /\ \E query \in Queries :
          k_calls \in [Threads ->
              {ThreadCall(query, endpoints, MaxLimit, "check", <<>>, <<>>) :
                  endpoints \in NonEmptyLists}]
    /\ k_cache = <<>>

ThreadsFrame == UNCHANGED besidesThreads

\* _ensure_embeddings up to model.encode: which keys are missing
ThreadCheck(thread) ==
    /\ k_calls[thread].pc = "check"
    /\ k_calls' = [k_calls EXCEPT
                      ![thread].pc = "store",
                      ![thread].pending = NewEmbeddings(k_cache, k_calls[thread].endpoints)]
    /\ UNCHANGED k_cache
    /\ ThreadsFrame

\* _ensure_embeddings after model.encode: the assignments of lines 129-130
ThreadStore(thread) ==
    /\ k_calls[thread].pc = "store"
    /\ k_cache' = k_calls[thread].pending @@ k_cache
    /\ k_calls' = [k_calls EXCEPT ![thread].pc = "score"]
    /\ ThreadsFrame

\* search, lines 178-200
ThreadScore(thread) ==
    /\ k_calls[thread].pc = "score"
    /\ k_calls' = [k_calls EXCEPT
                      ![thread].pc = "done",
                      ![thread].results =
                          EmbeddingSearchResults(k_cache, DefaultThreshold,
                              k_calls[thread].query, k_calls[thread].endpoints,
                              k_calls[thread].limit)]
    /\ UNCHANGED k_cache
    /\ ThreadsFrame

ThreadsNext ==
    \/ \E thread \in Threads : ThreadCheck(thread)
    \/ \E thread \in Threads : ThreadStore(thread)
    \/ \E thread \in Threads : ThreadScore(thread)

\* clear_cache, called by a third thread while the searches run
ThreadClearCache ==
    /\ k_cache # <<>>
    /\ k_cache' = <<>>
    /\ UNCHANGED k_calls
    /\ ThreadsFrame

\* the searches of the two threads and the clear_cache calls of a third
ClearNext ==
    \/ \E thread \in Threads : ThreadCheck(thread)
    \/ \E thread \in Threads : ThreadStore(thread)
    \/ \E thread \in Threads : ThreadScore(thread)
    \/ ThreadClearCache

----------------------------------------------------------------------------
(* Guardrails *)

DEFAULT_DESTRUCTIVE_METHODS == <<"DELETE", "PUT", "PATCH">>

\* the destructive_methods argument of Guardrails(...): None or a list
NoArgument == [given |-> FALSE, list |-> <<>>]

Argument(list) == [given |-> TRUE, list |-> list]

\* Guardrails.__init__ : the value of self.destructive_methods
GuardrailsNew(destructive_methods) ==
    LET list == IF ~destructive_methods.given THEN DEFAULT_DESTRUCTIVE_METHODS
                ELSE destructive_methods.list
    IN [i \in 1..Len(list) |-> Upper(list[i])]

\* Guardrails.is_destructive
IsDestructive(destructive, method) ==
    \E i \in 1..Len(destructive) : destructive[i] = Upper(method)

GuardrailResult(allowed, warning) == [allowed |-> allowed, warning |-> warning]

\* the f-string of check_operation, piece by piece
Warning(method, path) ==
    JStr(<<"This is a destructive operation (", method, " ", path, "). ",
           "Set ", "confirmed=true", " to proceed with this operation.">>)

\* check_operation without the method.upper() of its first line
CheckOperationCaseSensitive(destructive, method, path, confirmed) ==
    IF \A i \in 1..Len(destructive) : destructive[i] # method
    THEN GuardrailResult(TRUE, JNull)
    ELSE IF confirmed THEN GuardrailResult(TRUE, JNull)
    ELSE GuardrailResult(FALSE, Warning(method, path))

\* Guardrails.check_operation
CheckOperation(destructive, method, path, confirmed) ==
    LET upper == Upper(method) IN
    IF ~IsDestructive(destructive, upper) THEN GuardrailResult(TRUE, JNull)
    ELSE IF confirmed THEN GuardrailResult(TRUE, JNull)
    ELSE GuardrailResult(FALSE, Warning(upper, path))

\* the methods a caller passes, in the letter cases callers use
MethodSpellings ==
    {"GET", "get", "post", "DELETE", "delete", "Delete", "PUT", "put", "PATCH", "patch"}

CallPaths == {"/pets", "/pets/{petId}"}

\* the lists a Guardrails object is built with
Arguments ==
    {NoArgument, Argument(<<>>), Argument(<<"post">>), Argument(<<"Delete", "POST">>)}

NoCheck == [method |-> "", path |-> "", confirmed |-> FALSE]

NoResult == [allowed |-> FALSE, warning |-> JNull]

GuardrailsFrame == UNCHANGED besidesGuardrails

GuardrailsInit ==
    /\ g_argument \in Arguments
    /\ g_destructive = GuardrailsNew(g_argument)
    /\ g_call = NoCheck
    /\ g_result = NoResult

\* guardrails = Guardrails(destructive_methods)
NewGuardrails(destructive_methods) ==
    /\ g_argument' = destructive_methods
    /\ g_destructive' = GuardrailsNew(destructive_methods)
    /\ g_call' = NoCheck
    /\ g_result' = NoResult
    /\ GuardrailsFrame

\* guardrails.check_operation(method, path, confirmed)
CheckOperationCall(method, path, confirmed) ==
    /\ g_call' = [method |-> method, path |-> path, confirmed |-> confirmed]
    /\ g_result' = CheckOperation(g_destructive, method, path, confirmed)
    /\ UNCHANGED <<g_argument, g_destructive>>
    /\ GuardrailsFrame

GuardrailsNext ==
    \/ \E a \in Arguments : NewGuardrails(a)
    \/ \E m \in MethodSpellings, p \in CallPaths, c \in BOOLEAN :
          CheckOperationCall(m, p, c)

----------------------------------------------------------------------------
(* The tools execute_endpoint and batch_execute of the server *)

MaxBatch == 2

ApiNames == {"petstore", "unknown"}

\* the configurations the server starts on: no API, or the petstore
ToolConfigs == {{}, {"petstore"}}

\* what client.request(...) comes back with: no connection, or a status
StatusCodes == {0, 200, 404}

\* one dict of the requests list of batch_execute
BatchRequest(method, path) == [method |-> method, path |-> path]

BatchRequests == {BatchRequest(m, "/pets") : m \in {"GET", "delete", "PUT"}}

RequestLists == UNION {[1..n -> BatchRequests] : n \in 0..MaxBatch}

\* client.request(method=method.upper(), url=...) of AsyncAPIExecutor.execute
HttpRequest(method, path) == [method |-> Upper(method), path |-> path]

\* the requests execute_batch sends: one executor.execute per entry
BatchIssued(requests) ==
    [i \in 1..Len(requests) |-> HttpRequest(requests[i].method, requests[i].path)]

ToolCall(tool, api, method, path, requests, confirmed) ==
    [tool |-> tool, api |-> api, method |-> method, path |-> path,
     requests |-> requests, confirmed |-> confirmed]

NoToolCall == ToolCall("", "", "", "", <<>>, FALSE)

\* the key that tells the kinds of returned dicts apart, and the status codes in it
Response(kind, codes) == [kind |-> kind, codes |-> codes]

NoResponse == Response("", <<>>)

\* if registry is None: await initialize()
ExecutorsAfterInitialize ==
    IF t_initialized THEN t_executors ELSE t_executors \cup t_config

\* execute_endpoint that sends the request whatever the guardrails say
ExecuteEndpointUnguarded(executors, call, code) ==
    IF call.api \notin executors THEN <<<<>>, Response("error", <<>>)>>
    ELSE <<<<HttpRequest(call.method, call.path)>>, Response("status_code", <<code>>)>>

\* execute_endpoint after initialization: the requests sent and the dict returned
ExecuteEndpointOutcome(executors, call, code) ==
    IF call.api \notin executors THEN <<<<>>, Response("error", <<>>)>>
    ELSE LET check == CheckOperation(GuardrailsNew(NoArgument), call.method,
                                     call.path, call.confirmed)
         IN IF ~check.allowed THEN <<<<>>, Response("destructive_warning", <<>>)>>
            ELSE <<<<HttpRequest(call.method, call.path)>>,
                   Response("status_code", <<code>>)>>

\* batch_execute after initialization: the requests sent and the dict returned
BatchExecuteOutcome(executors, call, codes) ==
    IF call.api \notin executors THEN <<<<>>, Response("error", <<>>)>>
    ELSE IF ~call.confirmed THEN <<<<>>, Response("confirmation_required", <<>>)>>
    ELSE <<BatchIssued(call.requests), Response("results", codes)>>

ToolsFrame == UNCHANGED besidesTools

ToolsInit ==
    /\ t_config \in ToolConfigs
    /\ t_initialized = FALSE
    /\ t_executors = {}
    /\ t_call = NoToolCall
    /\ t_issued = <<>>
    /\ t_response = NoResponse

\* the tool execute_endpoint(api, path, method, confirmed=...)
ExecuteEndpoint(api, path, method, confirmed) ==
    \E code \in StatusCodes :
        LET call == ToolCall("execute_endpoint", api, method, path, <<>>, confirmed)
            outcome == ExecuteEndpointOutcome(ExecutorsAfterInitialize, call, code)
        IN /\ t_initialized' = TRUE
           /\ t_executors' = ExecutorsAfterInitialize
           /\ t_call' = call
           /\ t_issued' = outcome[1]
           /\ t_response' = outcome[2]
           /\ UNCHANGED t_config
           /\ ToolsFrame

\* the tool batch_execute(api, requests, parallel, confirmed)
BatchExecute(api, requests, confirmed) ==
    \E codes \in [1..Len(requests) -> StatusCodes] :
        LET call == ToolCall("batch_execute", api, "", "", requests, confirmed)
            outcome == BatchExecuteOutcome(ExecutorsAfterInitialize, call, codes)
        IN /\ t_initialized' = TRUE
           /\ t_executors' = ExecutorsAfterInitialize
           /\ t_call' = call
           /\ t_issued' = outcome[1]
           /\ t_response' = outcome[2]
           /\ UNCHANGED t_config
           /\ ToolsFrame

ToolsNext ==
    \/ \E api \in ApiNames, p \in CallPaths, m \in MethodSpellings, c \in BOOLEAN :
          ExecuteEndpoint(api, p, m, c)
    \/ \E api \in ApiNames, requests \in RequestLists, c \in BOOLEAN :
          BatchExecute(api, requests, c)

----------------------------------------------------------------------------
(* BatchExecutor.execute_batch *)

MaxRequests == 2

MaxConcurrency == 2

\* the paths of the requests of a batch; every request has a path and a method
BatchPaths == {"/a", "/b"}

BatchLists == UNION {[1..n -> BatchPaths] : n \in 0..MaxRequests}

\* the constructor takes any int; asyncio.Semaphore takes 0 and above
Concurrencies == 0..MaxConcurrency

\* response.status_code, or 0 when the request failed before a response
BatchStatusCodes == {0, 199, 200, 399, 400}

\* ExecutionResult(status_code, data): data is what the server sent back for
\* the path that was asked
ExecutionResult(status_code, path) == [status_code |-> status_code, data |-> path]

NoExecution == ExecutionResult(-1, "")

BatchCall(requests, parallel, concurrency) ==
    [requests |-> requests, parallel |-> parallel, concurrency |-> concurrency]

NoBatchCall == BatchCall(<<>>, FALSE, 0)

\* the summary dict of execute_batch
Summary(results) ==
    LET succeeded == {i \in 1..Len(results) :
                         200 <= results[i].status_code /\ results[i].status_code < 400}
        failed == {i \in 1..Len(results) :
                      results[i].status_code < 200 \/ results[i].status_code >= 400}
    IN [total |-> Len(results), succeeded |-> Cardinality(succeeded),
        failed |-> Cardinality(failed)]

BatchResult(results) == [results |-> results, summary |-> Summary(results)]

NoBatchResult == [results |-> <<>>, summary |-> [total |-> -1, succeeded |-> -1, failed |-> -1]]

\* the results in the order the responses came
GatherAsCompleted(results, order) == [i \in 1..Len(order) |-> results[order[i]]]

\* asyncio.gather(*tasks), and the results list of the sequential loop: the
\* results in the order of the requests
Gather(results, order) == results

\* the executor.execute calls that have sent their request and await the response
InFlight == {i \in 1..Len(b_tasks) : b_tasks[i] = "running"}

Waiting == {i \in 1..Len(b_tasks) : b_tasks[i] = "waiting"}

BatchRunning == b_call # NoBatchCall /\ b_result = NoBatchResult

BatchFrame == UNCHANGED besidesBatch

BatchInit ==
    /\ b_call = NoBatchCall
    /\ b_tasks = <<>>
    /\ b_results = <<>>
    /\ b_order = <<>>
    /\ b_result = NoBatchResult

\* BatchExecutor(executor, concurrency).execute_batch(requests, parallel)
ExecuteBatch(requests, parallel, concurrency) ==
    /\ ~BatchRunning
    /\ b_call' = BatchCall(requests, parallel, concurrency)
    /\ b_tasks' = [i \in 1..Len(requests) |-> "waiting"]
    /\ b_results' = [i \in 1..Len(requests) |-> NoExecution]
    /\ b_order' = <<>>
    /\ b_result' = NoBatchResult
    /\ BatchFrame

\* execute_with_semaphore(req) calling execute without the semaphore
ParallelSendUnbounded(i) ==
    /\ BatchRunning /\ b_call.parallel
    /\ i \in Waiting
    /\ b_tasks' = [b_tasks EXCEPT ![i] = "running"]
    /\ UNCHANGED <<b_call, b_results, b_order, b_result>>
    /\ BatchFrame

\* execute_with_semaphore(req) enters "async with semaphore" and calls execute
ParallelSend(i) ==
    /\ BatchRunning /\ b_call.parallel
    /\ i \in Waiting
    /\ Cardinality(InFlight) < b_call.concurrency
    /\ b_tasks' = [b_tasks EXCEPT ![i] = "running"]
    /\ UNCHANGED <<b_call, b_results, b_order, b_result>>
    /\ BatchFrame

\* the loop of _execute_sequential calls execute for its next request
SequentialSend(i) ==
    /\ BatchRunning /\ ~b_call.parallel
    /\ i \in Waiting /\ \A j \in 1..(i - 1) : b_tasks[j] = "done"
    /\ b_tasks' = [b_tasks EXCEPT ![i] = "running"]
    /\ UNCHANGED <<b_call, b_results, b_order, b_result>>
    /\ BatchFrame

\* executor.execute returns for request i
Respond(i, status_code) ==
    /\ BatchRunning
    /\ i \in InFlight
    /\ b_tasks' = [b_tasks EXCEPT ![i] = "done"]
    /\ b_results' = [b_results EXCEPT ![i] = ExecutionResult(status_code, b_call.requests[i])]
    /\ b_order' = Append(b_order, i)
    /\ UNCHANGED <<b_call, b_result>>
    /\ BatchFrame

\* every execute has returned: the summary is built and execute_batch returns
BatchReturn ==
    /\ BatchRunning
    /\ \A i \in 1..Len(b_tasks) : b_tasks[i] = "done"
    /\ b_result' = BatchResult(Gather(b_results, b_order))
    /\ UNCHANGED <<b_call, b_tasks, b_results, b_order>>
    /\ BatchFrame

BatchNext ==
    \/ \E requests \in BatchLists, parallel \in BOOLEAN, c \in Concurrencies :
          ExecuteBatch(requests, parallel, c)
    \/ \E i \in 1..MaxRequests : ParallelSend(i)
    \/ \E i \in 1..MaxRequests : SequentialSend(i)
    \/ \E i \in 1..MaxRequests, code \in BatchStatusCodes : Respond(i, code)
    \/ BatchReturn

\* the event loop runs every task that can run: a task that can take the
\* semaphore takes it, and every execute returns, with a response or, after
\* the timeout of the client, with status_code 0
BatchFairness ==
    /\ WF_vars(\E i \in 1..MaxRequests : ParallelSend(i))
    /\ WF_vars(\E i \in 1..MaxRequests : SequentialSend(i))
    /\ WF_vars(\E i \in 1..MaxRequests, code \in BatchStatusCodes : Respond(i, code))
    /\ WF_vars(BatchReturn)

----------------------------------------------------------------------------
(* One API written as a Swagger 2.0 and as an OpenAPI 3 document *)

Dialects == {"swagger", "openapi"}

\* where each dialect keeps its schemas
SchemaPointer(dialect, name) ==
    IF dialect = "swagger" THEN <<"#", "/", "definitions", "/", name>>
    ELSE Pointer(name)

\* the schemas the operations use, by name; "pet" and "pets" point at Pet
UsedSchema(dialect, name) ==
    CASE name = "pet" -> Ref(SchemaPointer(dialect, "Pet"))
      [] name = "pets" ->
            JDict([type |-> S("array"), items |-> Ref(SchemaPointer(dialect, "Pet"))])
      [] OTHER -> PlainString

UsedSchemas == {"pet", "pets", "string"}

\* the schemas kept under Pet; "tagged" points on at Tag
PetSchema(dialect, name) ==
    CASE name = "tagged" ->
            JDict([type |-> S("object"),
                   properties |-> JDict([name |-> PlainString,
                                         tag |-> Ref(SchemaPointer(dialect, "Tag"))])])
      [] OTHER -> PetObject

PetSchemaNames == {"plain", "tagged"}

\* a response with a schema, as each dialect writes it
DialectResponse(dialect, schema) ==
    IF dialect = "swagger" THEN JDict([description |-> S("ok"), schema |-> schema])
    ELSE JDict([description |-> S("ok"),
                content |-> JDict("application/json" :> JDict([schema |-> schema]))])

\* GET /pets with a response and nothing else
DialectList(dialect, y) ==
    JDict([operationId |-> S("listPets"),
           responses |-> JDict("200" :> DialectResponse(dialect, UsedSchema(dialect, y)))])

\* GET /pets with a query parameter of a primitive type
DialectFind(dialect, y) ==
    JDict([operationId |-> S("findPets"),
           parameters |->
               JList(<<IF dialect = "swagger"
                       THEN JDict([name |-> S("limit"), type |-> S("string")]
                                  @@ ("in" :> S("query")))
                       ELSE QueryParameter("limit", PlainString)>>),
           responses |-> JDict("200" :> DialectResponse(dialect, UsedSchema(dialect, y)))])

\* POST /pets with a JSON body
DialectAdd(dialect, x, y) ==
    IF dialect = "swagger"
    THEN JDict([operationId |-> S("addPet"),
                parameters |->
                    JList(<<JDict([name |-> S("body"), required |-> JBool(TRUE),
                                   schema |-> UsedSchema(dialect, x)]
                                  @@ ("in" :> S("body")))>>),
                responses |-> JDict("201" :> DialectResponse(dialect, UsedSchema(dialect, y)))])
    ELSE JDict([operationId |-> S("addPet"),
                requestBody |-> JsonBody(UsedSchema(dialect, x)),
                responses |-> JDict("201" :> DialectResponse(dialect, UsedSchema(dialect, y)))])

DialectLayouts == {"responses", "query", "body"}

DialectPaths(dialect, layout, x, y) ==
    CASE layout = "responses" -> JDict("/pets" :> JDict([get |-> DialectList(dialect, y)]))
      [] layout = "query" -> JDict("/pets" :> JDict([get |-> DialectFind(dialect, y)]))
      [] OTHER -> JDict("/pets" :> JDict([get |-> DialectList(dialect, y),
                                          post |-> DialectAdd(dialect, x, y)]))

DialectDocument(dialect, layout, x, y, pet) ==
    LET schemas == JDict([Pet |-> PetSchema(dialect, pet), Tag |-> PlainString])
        head == [info |-> JDict([title |-> S("Pets"), version |-> S("1.0")]),
                 paths |-> DialectPaths(dialect, layout, x, y)]
    IN  IF dialect = "swagger"
        THEN JDict(head @@ [swagger |-> S("2.0"), definitions |-> schemas])
        ELSE JDict(head @@ [openapi |-> S("3.0.0"),
                            components |-> JDict([schemas |-> schemas])])

DialectsFrame == UNCHANGED besidesDialects

DialectsInit ==
    /\ \E layout \in DialectLayouts, x \in UsedSchemas, y \in UsedSchemas,
          pet \in PetSchemaNames :
          /\ d_swagger = DialectDocument("swagger", layout, x, y, pet)
          /\ d_openapi = DialectDocument("openapi", layout, x, y, pet)
    /\ d_order \in MethodOrders
    /\ d_parsed_swagger = JNull
    /\ d_parsed_openapi = JNull

\* await OpenAPIParser().parse(...) of the Swagger 2.0 document
ParseSwagger ==
    /\ d_parsed_swagger = JNull
    /\ d_parsed_swagger' = ParseDocument(d_swagger, d_order)
    /\ UNCHANGED <<d_swagger, d_openapi, d_order, d_parsed_openapi>>
    /\ DialectsFrame

\* await OpenAPIParser().parse(...) of the OpenAPI 3 document
ParseOpenAPI ==
    /\ d_parsed_openapi = JNull
    /\ d_parsed_openapi' = ParseDocument(d_openapi, d_order)
    /\ UNCHANGED <<d_swagger, d_openapi, d_order, d_parsed_swagger>>
    /\ DialectsFrame

DialectsNext == ParseSwagger \/ ParseOpenAPI

----------------------------------------------------------------------------
(* _resolve_ref applied to its own result *)

NotCalled == [t |-> "not called"]

\* the documents _resolve_ref walks: the schemas under components.schemas vary
ResolveDocuments ==
    {Document("one-path", PlainString, PlainString, PlainString, pet, node) :
        pet \in PetSchemas, node \in NodeSchemas}

\* objects without "$ref" at any depth, a sequence and a string among them
RefFreeObjects ==
    {PlainString, PetObject, EmptyDict, S("#/components/schemas/Pet"),
     JDict([type |-> S("array"), enum |-> JList(<<S("a"), JList(<<PlainString>>)>>)])}

\* the objects _resolve_ref is given
ResolveObjects ==
    RequestSchemas \cup RefFreeObjects
    \cup {JList(<<RefPet>>),
          JDict([allOf |-> JList(<<RefNode, RefMissing>>), title |-> S("both")]),
          JDict("$ref" :> JStr(Pointer("Missing")) @@ [properties |-> JDict([pet |-> RefPet])])}

ResolveFrame == UNCHANGED besidesResolve

ResolveInit ==
    /\ r_spec \in ResolveDocuments
    /\ r_obj \in ResolveObjects
    /\ r_once = NotCalled
    /\ r_twice = NotCalled

\* result = self._resolve_ref(obj)
ResolveOnce ==
    /\ r_once = NotCalled
    /\ r_once' = ResolveRef(r_spec, r_obj, 1)
    /\ UNCHANGED <<r_spec, r_obj, r_twice>>
    /\ ResolveFrame

\* self._resolve_ref(result), when the first call returned
ResolveAgain ==
    /\ r_once # NotCalled /\ ~IsRaise(r_once)
    /\ r_twice = NotCalled
    /\ r_twice' = ResolveRef(r_spec, r_once, 1)
    /\ UNCHANGED <<r_spec, r_obj, r_once>>
    /\ ResolveFrame

ResolveNext == ResolveOnce \/ ResolveAgain

----------------------------------------------------------------------------
(* _build_searchable_text of the two providers on one endpoint *)

NotBuilt == [built |-> FALSE, text |-> <<>>]

Built(text) == [built |-> TRUE, text |-> text]

\* the endpoints the text is built for: every field present and absent, an
\* operationId that starts with an upper-case letter, a path with a parameter
TextEndpoints ==
    {[path |-> path, method |-> method, summary |-> summary,
      description |-> description, operation_id |-> operation_id, tags |-> tags] :
        path \in {<<"/", "p">>, <<"/", "p", "/", "{", "i", "d", "}">>},
        method \in {<<"G", "E", "T">>, <<"D", "E", "L", "E", "T", "E">>},
        summary \in {<<>>, <<"A", "l", "l">>},
        description \in {<<>>, <<"d">>},
        operation_id \in {<<>>, <<"l", "i", "s", "t", "P", "e", "t", "s">>,
                          <<"G", "e", "t", "P", "e", "t">>},
        tags \in {<<>>, << <<"p", "e", "t">> >>, << <<"p", "e", "t">>, <<"d", "e">> >>}}

TextFrame == UNCHANGED besidesText

TextInit ==
    /\ w_endpoint \in TextEndpoints
    /\ w_fuzzy = NotBuilt
    /\ w_embedding = NotBuilt

\* FuzzySearchProvider._build_searchable_text(endpoint)
FuzzyBuildText ==
    /\ w_fuzzy = NotBuilt
    /\ w_fuzzy' = Built(BuildSearchableText(w_endpoint))
    /\ UNCHANGED <<w_endpoint, w_embedding>>
    /\ TextFrame

\* EmbeddingSearchProvider._build_searchable_text(endpoint)
EmbeddingBuildText ==
    /\ w_embedding = NotBuilt
    /\ w_embedding' = Built(BuildSearchableText(w_endpoint))
    /\ UNCHANGED <<w_endpoint, w_fuzzy>>
    /\ TextFrame

TextNext == FuzzyBuildText \/ EmbeddingBuildText

----------------------------------------------------------------------------
(* _parse_operation on operations with several bodies and responses *)

\* self._spec while the operations are parsed
SchemaDocument ==
    JDict([openapi |-> S("3.0.0"),
           components |->
               JDict([schemas |-> JDict([Pet |-> PetObject, Any |-> EmptyDict]),
                      requestBodies |-> JDict([PetBody |-> JsonBody(RefPet)])])])

RefPetBody == Ref(<<"#", "/", "components", "/", "requestBodies", "/", "PetBody">>)

\* a media type object with an example and no schema
ExampleOnly == JDict([example |-> S("rex")])

\* a Swagger 2.0 body parameter
BodyParameter(name, schema) ==
    JDict([name |-> S(name), required |-> JBool(TRUE), schema |-> schema]
          @@ ("in" :> S("body")))

NoEntry == [t |-> "absent"]

\* the requestBody of the operation, NoEntry for an operation without one
RequestBodies ==
    {NoEntry, JsonBody(RefPet), JsonBody(PlainString), JsonBody(Ref(Pointer("Any"))),
     RefPetBody,
     JDict([content |-> JDict("application/xml" :> JDict([schema |-> RefPet]))]),
     JDict([content |-> JDict("application/json" :> ExampleOnly)])}

PathLevelParameters ==
    {<<>>, <<PathParameter("petId")>>, <<BodyParameter("first", PlainString)>>}

OperationLevelParameters ==
    {<<>>, <<QueryParameter("limit", PlainString)>>,
     <<QueryParameter("limit", PlainString), BodyParameter("pet", RefPet)>>}

\* a response object as OpenAPI 3 and as Swagger 2.0 write it
JsonResponse(schema) ==
    JDict([description |-> S("ok"),
           content |-> JDict("application/json" :> JDict([schema |-> schema]))])

InlineResponse(schema) == JDict([description |-> S("ok"), schema |-> schema])

DescriptionOnly == JDict([description |-> S("ok")])

\* the responses under "200", "201" and "default"
Responses200 ==
    {NoEntry, EmptyDict, DescriptionOnly, JsonResponse(RefPet), InlineResponse(PlainString),
     JDict([description |-> S("ok"), content |-> JDict("application/json" :> ExampleOnly)])}

Responses201 == {NoEntry, JsonResponse(PlainString), InlineResponse(RefPet)}

ResponsesDefault == {NoEntry, InlineResponse(PetObject)}

\* the mapping with the entries that are there
Present(entries) ==
    [key \in {k \in DOMAIN entries : entries[k] # NoEntry} |-> entries[key]]

OperationOfParts(request_body, parameters, r200, r201, rdefault) ==
    JDict(Present([requestBody |-> request_body,
                   parameters |-> IF parameters = <<>> THEN NoEntry ELSE JList(parameters),
                   responses |-> JDict(Present("200" :> r200 @@ "201" :> r201
                                               @@ "default" :> rdefault))]))

Operations ==
    {OperationOfParts(request_body, parameters, r200, r201, rdefault) :
        request_body \in RequestBodies, parameters \in OperationLevelParameters,
        r200 \in Responses200, r201 \in Responses201, rdefault \in ResponsesDefault}

OperationsFrame == UNCHANGED besidesOperations

OperationsInit ==
    /\ o_operation \in Operations
    /\ o_path_params \in PathLevelParameters
    /\ o_endpoint = JNull

\* self._parse_operation("/pets", "post", operation, path_params)
ParseOperationCall ==
    /\ o_endpoint = JNull
    /\ o_endpoint' = ParseOperation(SchemaDocument, "/pets", "post", o_operation, o_path_params)
    /\ UNCHANGED <<o_operation, o_path_params>>
    /\ OperationsFrame

OperationsNext == ParseOperationCall

----------------------------------------------------------------------------
(* Several parse calls in flight on the parser of one APIRegistry *)

MaxParses == 2

\* what the fetches of the calls give: documents that name their schemas
\* alike and define them differently, and a failed fetch
SharedDocuments ==
    {Document("one-path", RefPet, RefPet, PlainString, pet, PlainString) :
        pet \in {PetObject, PlainString, JDict([properties |-> JDict([friend |-> RefNode])])}}

FetchResults == SharedDocuments \cup {Raise("ConnectError")}

\* self._spec as _resolve_ref (line 238) finds it during the extraction of a
\* call, one await later than the assignment of line 67: the document
\* another call stored meanwhile, or its own
SpecOfEarlierStore(stored, raw_spec) == stored

\* self._spec as _resolve_ref (line 238) finds it during the extraction of a
\* call: lines 67-89 have no await, it is the document line 67 stored
SpecRead(stored, raw_spec) == raw_spec

\* lines 75-89 on the document of the call, the references looked up in
\* self._spec
ParseOnField(field, raw_spec, methods) ==
    Try(ParseOperations(field, Get(raw_spec, "paths", EmptyDict),
                        OperationPairs(Get(raw_spec, "paths", EmptyDict),
                                       Keys(Get(raw_spec, "paths", EmptyDict)), methods),
                        <<>>),
        LAMBDA endpoints :
            ParsedSpec(Get(Get(raw_spec, "info", EmptyDict), "title", S("Unknown API")),
                       Get(Get(raw_spec, "info", EmptyDict), "version", S("1.0.0")),
                       Get(Get(raw_spec, "info", EmptyDict), "description", JNull),
                       endpoints.l))

SharedFrame == UNCHANGED besidesShared

SharedInit ==
    /\ q_spec = EmptyDict
    /\ q_components = EmptyDict
    /\ q_calls = <<>>
    /\ q_results = <<>>
    /\ q_log = <<>>

\* parse(spec_url) is called and suspends in _fetch_spec, line 66
ParseBegin(fetched) ==
    /\ Len(q_calls) < MaxParses
    /\ q_calls' = Append(q_calls, [fetched |-> fetched, state |-> "fetching"])
    /\ q_results' = Append(q_results, NotCalled)
    /\ q_log' = Append(q_log, <<"begin", Len(q_calls) + 1>>)
    /\ UNCHANGED <<q_spec, q_components>>
    /\ SharedFrame

\* the fetch of call i ends with a document: lines 67-89 run to the return
ParseResume(i) ==
    /\ i \in 1..Len(q_calls)
    /\ q_calls[i].state = "fetching"
    /\ ~IsRaise(q_calls[i].fetched)
    /\ q_spec' = q_calls[i].fetched
    /\ q_components' = ComponentsOf(q_calls[i].fetched)
    /\ q_results' = [q_results EXCEPT ![i] =
                        ParseOnField(SpecRead(q_spec, q_calls[i].fetched),
                                     q_calls[i].fetched, CanonicalOrder)]
    /\ q_calls' = [q_calls EXCEPT ![i].state = "returned"]
    /\ q_log' = Append(q_log, <<"end", i>>)
    /\ SharedFrame

\* the fetch of call i raises: parse raises at line 66 and stores nothing
ParseFetchRaises(i) ==
    /\ i \in 1..Len(q_calls)
    /\ q_calls[i].state = "fetching"
    /\ IsRaise(q_calls[i].fetched)
    /\ q_results' = [q_results EXCEPT ![i] = q_calls[i].fetched]
    /\ q_calls' = [q_calls EXCEPT ![i].state = "raised"]
    /\ q_log' = Append(q_log, <<"end", i>>)
    /\ UNCHANGED <<q_spec, q_components>>
    /\ SharedFrame

SharedNext ==
    \/ \E fetched \in FetchResults : ParseBegin(fetched)
    \/ \E i \in 1..MaxParses : ParseResume(i)
    \/ \E i \in 1..MaxParses : ParseFetchRaises(i)

----------------------------------------------------------------------------
(* Lazy initialization of the server *)

\* config.apis of the configuration file: the names, in order; <<>> also
\* stands for a missing file
ConfiguredLists == {<<>>, <<"petstore">>, <<"petstore", "orders">>}

ToolNames == {"list_apis", "search_endpoints", "execute_endpoint", "batch_execute"}

\* the api argument of a tool call
CalledApis == {"petstore", "orders", "unknown"}

\* registry is None
NoRegistry == [t |-> "None", apis |-> {}, specs |-> {}]

\* an APIRegistry: the keys of _apis and of _specs
Registry(apis, specs) == [t |-> "registry", apis |-> apis, specs |-> specs]

NotInitializing == [caller |-> <<>>, registered |-> 0, state |-> "none"]

\* the call inside initialize(): who awaits it, how many register_api calls
\* of load_config have returned, and whether one is at its await
Initializing(caller, registered, state) ==
    [caller |-> caller, registered |-> registered, state |-> state]

ToolCallOf(tool, api) == <<tool, api>>

NoView ==
    [tool |-> "", api |-> "", apis |-> {}, specs |-> {}, executors |-> {},
     answer |-> "", initializing |-> FALSE]

\* what the body of the tool does after the `if registry is None` lines
Answer(tool, api, registry, executors) ==
    CASE tool = "list_apis" -> "list"
      [] tool = "search_endpoints" ->
            IF api \notin registry.apis THEN "API not found"
            ELSE IF api \in registry.specs THEN "results" ELSE "no endpoints"
      [] OTHER -> IF api \notin executors THEN "API not found" ELSE "proceeds"

\* the globals as the body of a tool call finds them
View(tool, api, registry, executors, initializing) ==
    [tool |-> tool, api |-> api, apis |-> registry.apis, specs |-> registry.specs,
     executors |-> executors, answer |-> Answer(tool, api, registry, executors),
     initializing |-> initializing]

\* initialize() is running, suspended in load_config
InsideInitialize == z_init.state = "awaiting"

LazyFrame == UNCHANGED besidesLazy

LazyInit ==
    /\ z_config \in ConfiguredLists
    /\ z_registry = NoRegistry
    /\ z_executors = {}
    /\ z_init = NotInitializing
    /\ z_runs = 0
    /\ z_view = NoView

\* a tool call finds registry is None and enters initialize(): lines 66-68
\* set the globals.  With no configuration to load initialize returns and the
\* body of the tool runs; otherwise load_config calls register_api for the
\* first API, which stores the configuration and suspends in the fetch of
\* the spec
FirstToolCall(tool, api) ==
    /\ z_registry = NoRegistry
    /\ z_runs' = z_runs + 1
    /\ UNCHANGED <<z_config, z_executors>>
    /\ IF z_config = <<>>
       THEN /\ z_registry' = Registry({}, {})
            /\ z_init' = Initializing(<<>>, 0, "done")
            /\ z_view' = View(tool, api, z_registry', z_executors, FALSE)
       ELSE /\ z_registry' = Registry({z_config[1]}, {})
            /\ z_init' = Initializing(ToolCallOf(tool, api), 0, "awaiting")
            /\ z_view' = z_view
    /\ LazyFrame

\* the fetch ends and the spec (or the placeholder) is stored.  The loop of
\* load_config goes on to the next API, whose register_api stores the
\* configuration and suspends; after the last API, lines 76-79 fill
\* executors, initialize returns and the body of the tool that awaited it runs
InitializeResume ==
    /\ z_init.state = "awaiting"
    /\ UNCHANGED <<z_config, z_runs>>
    /\ IF z_init.registered + 1 < Len(z_config)
       THEN /\ z_registry' = Registry(z_registry.apis \cup {z_config[z_init.registered + 2]},
                                      z_registry.specs \cup {z_config[z_init.registered + 1]})
            /\ z_init' = Initializing(z_init.caller, z_init.registered + 1, "awaiting")
            /\ UNCHANGED <<z_executors, z_view>>
       ELSE /\ z_registry' = Registry(z_registry.apis,
                                      z_registry.specs \cup {z_config[z_init.registered + 1]})
            /\ z_init' = Initializing(<<>>, z_init.registered + 1, "done")
            /\ z_executors' = z_executors \cup z_registry'.apis
            /\ z_view' = View(z_init.caller[1], z_init.caller[2], z_registry',
                              z_executors', FALSE)
    /\ LazyFrame

\* a tool call that finds registry set: its body runs at once, on the
\* globals as they are
LaterToolCall(tool, api) ==
    /\ z_registry # NoRegistry
    /\ z_view' = View(tool, api, z_registry, z_executors, InsideInitialize)
    /\ UNCHANGED <<z_config, z_registry, z_executors, z_init, z_runs>>
    /\ LazyFrame

LazyNext ==
    \/ \E tool \in ToolNames, api \in CalledApis : FirstToolCall(tool, api)
    \/ InitializeResume
    \/ \E tool \in ToolNames, api \in CalledApis : LaterToolCall(tool, api)

----------------------------------------------------------------------------
(* The specifications *)

ParserIdle ==
    /\ p_phase = "idle"
    /\ p_raw = JNull
    /\ p_spec = EmptyDict
    /\ p_components = EmptyDict
    /\ p_order = CanonicalOrder
    /\ p_result = JNull

RegistryIdle ==
    /\ r_apis = <<>>
    /\ r_specs = <<>>
    /\ r_calls = {}
    /\ r_started = 0
    /\ r_event = NoEvent
    /\ lc_apis = <<>>
    /\ lc_index = 0
    /\ lc_state = "idle"

SearchIdle ==
    /\ s_threshold = DefaultThreshold
    /\ s_call = NoCall
    /\ e_available = TRUE
    /\ e_model = "none"
    /\ e_cache = <<>>
    /\ e_texts = <<>>

ProvidersIdle ==
    /\ x_providers = <<>>
    /\ x_event = NoProviderEvent

CosineIdle ==
    /\ c_a = <<0, 0>>
    /\ c_b = <<0, 0>>
    /\ c_score = NoScore

ThreadsIdle ==
    /\ k_calls = <<>>
    /\ k_cache = <<>>

GuardrailsIdle ==
    /\ g_argument = NoArgument
    /\ g_destructive = GuardrailsNew(NoArgument)
    /\ g_call = NoCheck
    /\ g_result = NoResult

ToolsIdle ==
    /\ t_config = {}
    /\ t_initialized = FALSE
    /\ t_executors = {}
    /\ t_call = NoToolCall
    /\ t_issued = <<>>
    /\ t_response = NoResponse

BatchIdle ==
    /\ b_call = NoBatchCall
    /\ b_tasks = <<>>
    /\ b_results = <<>>
    /\ b_order = <<>>
    /\ b_result = NoBatchResult

DialectsIdle ==
    /\ d_swagger = EmptyDict
    /\ d_openapi = EmptyDict
    /\ d_order = CanonicalOrder
    /\ d_parsed_swagger = JNull
    /\ d_parsed_openapi = JNull

ResolveIdle ==
    /\ r_spec = EmptyDict
    /\ r_obj = JNull
    /\ r_once = NotCalled
    /\ r_twice = NotCalled

TextIdle ==
    /\ w_endpoint = Endpoint(<<>>, <<>>, <<>>, <<>>, <<>>)
    /\ w_fuzzy = NotBuilt
    /\ w_embedding = NotBuilt

OperationsIdle ==
    /\ o_operation = EmptyDict
    /\ o_path_params = <<>>
    /\ o_endpoint = JNull

SharedIdle ==
    /\ q_spec = EmptyDict
    /\ q_components = EmptyDict
    /\ q_calls = <<>>
    /\ q_results = <<>>
    /\ q_log = <<>>

LazyIdle ==
    /\ z_config = <<>>
    /\ z_registry = NoRegistry
    /\ z_executors = {}
    /\ z_init = NotInitializing
    /\ z_runs = 0
    /\ z_view = NoView

\* the parts below the search providers, idle
RestIdle ==
    CosineIdle /\ ThreadsIdle /\ GuardrailsIdle /\ ToolsIdle /\ BatchIdle
    /\ DialectsIdle /\ ResolveIdle /\ TextIdle /\ OperationsIdle /\ SharedIdle
    /\ LazyIdle

ParserSpecInit == ParserInit /\ RegistryIdle /\ SearchIdle /\ ProvidersIdle /\ RestIdle

ParserSpec == ParserSpecInit /\ [][ParserNext]_vars

RegistrySpecInit == RegistryInit /\ ParserIdle /\ SearchIdle /\ ProvidersIdle /\ RestIdle

RegistrySpec == RegistrySpecInit /\ [][RegistryNext]_vars

SearchSpecInit == SearchInit /\ ParserIdle /\ RegistryIdle /\ ProvidersIdle /\ RestIdle

SearchSpec == SearchSpecInit /\ [][SearchNext]_vars

ProvidersSpecInit == ProvidersInit /\ ParserIdle /\ RegistryIdle /\ RestIdle

ProvidersSpec == ProvidersSpecInit /\ [][ProvidersNext]_vars

\* the parts above the cosine, idle
FrontIdle == ParserIdle /\ RegistryIdle /\ SearchIdle /\ ProvidersIdle

ThreadsSpecInit ==
    ThreadsInit /\ FrontIdle /\ CosineIdle /\ GuardrailsIdle /\ ToolsIdle /\ BatchIdle
    /\ DialectsIdle /\ ResolveIdle /\ TextIdle /\ OperationsIdle /\ SharedIdle
    /\ LazyIdle

ThreadsSpec == ThreadsSpecInit /\ [][ThreadsNext]_vars

GuardrailsSpecInit ==
    GuardrailsInit /\ FrontIdle /\ CosineIdle /\ ThreadsIdle /\ ToolsIdle /\ BatchIdle
    /\ DialectsIdle /\ ResolveIdle /\ TextIdle /\ OperationsIdle /\ SharedIdle
    /\ LazyIdle

GuardrailsSpec == GuardrailsSpecInit /\ [][GuardrailsNext]_vars

ToolsSpecInit ==
    ToolsInit /\ FrontIdle /\ CosineIdle /\ ThreadsIdle /\ GuardrailsIdle /\ BatchIdle
    /\ DialectsIdle /\ ResolveIdle /\ TextIdle /\ OperationsIdle /\ SharedIdle
    /\ LazyIdle

ToolsSpec == ToolsSpecInit /\ [][ToolsNext]_vars

BatchSpecInit ==
    BatchInit /\ FrontIdle /\ CosineIdle /\ ThreadsIdle /\ GuardrailsIdle /\ ToolsIdle
    /\ DialectsIdle /\ ResolveIdle /\ TextIdle /\ OperationsIdle /\ SharedIdle
    /\ LazyIdle

BatchSpec == BatchSpecInit /\ [][BatchNext]_vars

DialectsSpecInit ==
    DialectsInit /\ FrontIdle /\ CosineIdle /\ ThreadsIdle /\ GuardrailsIdle
    /\ ToolsIdle /\ BatchIdle /\ ResolveIdle /\ TextIdle /\ OperationsIdle
    /\ SharedIdle /\ LazyIdle

DialectsSpec == DialectsSpecInit /\ [][DialectsNext]_vars

ResolveSpecInit ==
    ResolveInit /\ FrontIdle /\ CosineIdle /\ ThreadsIdle /\ GuardrailsIdle /\ ToolsIdle
    /\ BatchIdle /\ DialectsIdle /\ TextIdle /\ OperationsIdle /\ SharedIdle
    /\ LazyIdle

ResolveSpec == ResolveSpecInit /\ [][ResolveNext]_vars

TextSpecInit ==
    TextInit /\ FrontIdle /\ CosineIdle /\ ThreadsIdle /\ GuardrailsIdle /\ ToolsIdle
    /\ BatchIdle /\ DialectsIdle /\ ResolveIdle /\ OperationsIdle /\ SharedIdle
    /\ LazyIdle

TextSpec == TextSpecInit /\ [][TextNext]_vars

OperationsSpecInit ==
    OperationsInit /\ FrontIdle /\ CosineIdle /\ ThreadsIdle /\ GuardrailsIdle
    /\ ToolsIdle /\ BatchIdle /\ DialectsIdle /\ ResolveIdle /\ TextIdle /\ SharedIdle
    /\ LazyIdle

OperationsSpec == OperationsSpecInit /\ [][OperationsNext]_vars

SharedSpecInit ==
    SharedInit /\ FrontIdle /\ CosineIdle /\ ThreadsIdle /\ GuardrailsIdle /\ ToolsIdle
    /\ BatchIdle /\ DialectsIdle /\ ResolveIdle /\ TextIdle /\ OperationsIdle
    /\ LazyIdle

SharedSpec == SharedSpecInit /\ [][SharedNext]_vars

LazySpecInit ==
    LazyInit /\ FrontIdle /\ CosineIdle /\ ThreadsIdle /\ GuardrailsIdle /\ ToolsIdle
    /\ BatchIdle /\ DialectsIdle /\ ResolveIdle /\ TextIdle /\ OperationsIdle
    /\ SharedIdle

LazySpec == LazySpecInit /\ [][LazyNext]_vars

BatchFairSpecInit ==
    BatchInit /\ FrontIdle /\ CosineIdle /\ ThreadsIdle /\ GuardrailsIdle /\ ToolsIdle
    /\ DialectsIdle /\ ResolveIdle /\ TextIdle /\ OperationsIdle /\ SharedIdle
    /\ LazyIdle

BatchFairSpec == BatchFairSpecInit /\ [][BatchNext]_vars /\ BatchFairness

ClearSpecInit ==
    ThreadsInit /\ FrontIdle /\ CosineIdle /\ GuardrailsIdle /\ ToolsIdle /\ BatchIdle
    /\ DialectsIdle /\ ResolveIdle /\ TextIdle /\ OperationsIdle /\ SharedIdle
    /\ LazyIdle

ClearSpec == ClearSpecInit /\ [][ClearNext]_vars

CompletingSpecInit ==
    RegistryInit /\ ParserIdle /\ SearchIdle /\ ProvidersIdle /\ RestIdle

CompletingSpec == CompletingSpecInit /\ [][CompletingNext]_vars

CosineSpecInit ==
    CosineInit /\ FrontIdle /\ ThreadsIdle /\ GuardrailsIdle /\ ToolsIdle /\ BatchIdle
    /\ DialectsIdle /\ ResolveIdle /\ TextIdle /\ OperationsIdle /\ SharedIdle
    /\ LazyIdle

CosineSpec == CosineSpecInit /\ [][CosineStep]_vars

----------------------------------------------------------------------------
(* What the claims about the parser speak of *)

RECURSIVE RefMappings(_)
\* every mapping with a "$ref" key inside v, at any depth, whether below a
\* mapping or below a sequence
RefMappings(v) ==
    IF IsDict(v) THEN
        (IF "$ref" \in DOMAIN v.d THEN {v} ELSE {})
        \cup UNION {RefMappings(v.d[k]) : k \in DOMAIN v.d}
    ELSE IF IsList(v) THEN UNION {RefMappings(v.l[i]) : i \in 1..Len(v.l)}
    ELSE {}

RefFree(v) == RefMappings(v) = {}

RECURSIVE HasPath(_, _)
\* each segment in turn names a key of the mapping reached so far
HasPath(v, parts) ==
    \/ parts = <<>>
    \/ /\ IsDict(v)
       /\ Len(Head(parts)) = 1
       /\ Head(parts)[1] \in DOMAIN v.d
       /\ HasPath(v.d[Head(parts)[1]], Tail(parts))

RECURSIVE ValueAt(_, _)
ValueAt(v, parts) ==
    IF parts = <<>> THEN v ELSE ValueAt(v.d[Head(parts)[1]], Tail(parts))

\* the pointer of the mapping starts with "#/" and each segment is found
Resolvable(spec, o) ==
    /\ o.d["$ref"].t = "str"
    /\ StartsWithHashSlash(o.d["$ref"].s)
    /\ HasPath(spec, RefParts(o.d["$ref"].s))

Target(spec, o) == ValueAt(spec, RefParts(o.d["$ref"].s))

\* the resolvable reference mappings met inside the target of o
RefsBelow(spec, o) ==
    IF Resolvable(spec, o)
    THEN {r \in RefMappings(Target(spec, o)) : Resolvable(spec, r)}
    ELSE {}

RECURSIVE ReachableRefs(_, _, _)
\* the reference mappings met when following those of `front`, `n` levels deep
ReachableRefs(spec, front, n) ==
    IF n = 0 \/ front = {} THEN {}
    ELSE LET next == UNION {RefsBelow(spec, o) : o \in front}
         IN  next \cup ReachableRefs(spec, next, n - 1)

\* some pointer of the document leads back to itself
SelfReferential(spec) ==
    LET all == RefMappings(spec)
    IN  \E o \in all :
            \E r \in ReachableRefs(spec, {o}, Cardinality(all)) :
                r.d["$ref"] = o.d["$ref"]

\* the (path, METHOD) pairs present under paths
PairsPresent(spec) ==
    LET paths == Get(spec, "paths", EmptyDict) IN
    UNION {{<<path, Upper(verb)>> : verb \in HTTP_METHODS \cap DOMAIN paths.d[path].d} :
           path \in {q \in DOMAIN paths.d : IsDict(paths.d[q])}}

Parsed == p_phase = "done" /\ p_result.t = "spec"

EndpointKeys(endpoints) == {<<endpoints[i].path, endpoints[i].method>> : i \in DOMAIN endpoints}

\* the schemas an Endpoint carries
SchemasOf(endpoint) ==
    {endpoint.request_body_schema, endpoint.response_schema}
    \cup {endpoint.parameters[i].param_schema : i \in DOMAIN endpoint.parameters}

\* the operation of the document an Endpoint was built from
OperationOf(spec, endpoint) ==
    LET verb == CHOOSE w \in HTTP_METHODS : Upper(w) = endpoint.method
    IN  spec.d["paths"].d[endpoint.path].d[verb]

JsonSchemaOf(body) ==
    Get(Get(Get(body, "content", EmptyDict), "application/json", EmptyDict), "schema", JNull)

DeclaredRequestSchema(operation) == JsonSchemaOf(Get(operation, "requestBody", EmptyDict))

DeclaredResponseSchema(operation) ==
    LET responses == Get(operation, "responses", EmptyDict)
    IN  JsonSchemaOf(Or(Or(Get(responses, "200", EmptyDict), Get(responses, "201", EmptyDict)),
                        Get(responses, "default", EmptyDict)))

IsRefMapping(v) == IsDict(v) /\ "$ref" \in DOMAIN v.d

\* a field declared as a reference: the literal when the pointer cannot be
\* resolved, the target when the target holds no further reference
Settled(spec, declared, got) ==
    IF ~IsRefMapping(declared) THEN TRUE
    ELSE IF ~Resolvable(spec, declared) THEN got = declared
    ELSE RefFree(Target(spec, declared)) => got = Target(spec, declared)

----------------------------------------------------------------------------
(* Claims C1 - C4 : the parser *)

\* C1: _resolve_ref terminates on every document, also on a self-referential
\* one: no resolution and no parse ends in RecursionError, a pointer met again
\* on the active path being left unresolved instead of followed.
C1_SelfReferenceTerminates ==
    p_phase = "done" =>
        /\ ~IsRaise(p_result)
        /\ \A o \in RefMappings(p_spec) : ~IsRaise(ResolveRef(p_spec, o, 1))

\* C2: for every valid document parse yields exactly one Endpoint per
\* (path, verb) pair present under paths, none for anything else, with the
\* method uppercased, so that method+path is unique.
C2_OneEndpointPerPair ==
    p_phase = "done" =>
        /\ p_result.t = "spec"
        /\ EndpointKeys(p_result.endpoints) = PairsPresent(p_spec)
        /\ Len(p_result.endpoints) = Cardinality(PairsPresent(p_spec))

\* C3: when every pointer of the document is resolvable and none leads back
\* to itself, no mapping with a "$ref" key is left at any depth of any
\* Endpoint's request, response and parameter schemas.
C3_FullyInlined ==
    (/\ p_phase = "done"
     /\ \A o \in RefMappings(p_spec) : Resolvable(p_spec, o)
     /\ ~SelfReferential(p_spec))
    => /\ p_result.t = "spec"
       /\ \A i \in DOMAIN p_result.endpoints :
            \A schema \in SchemasOf(p_result.endpoints[i]) : RefFree(schema)

\* C4: a pointer that does not start with "#/" or has a missing segment is
\* returned as the unresolved mapping and raises nothing; only a pointer that
\* leads back to itself makes parse raise, and in a parsed document every
\* (path, verb) pair has its Endpoint, a field declared with an unresolvable
\* pointer holds the literal and a field declared with a resolvable one holds
\* the target.
C4_UnresolvableStaysLocal ==
    p_phase = "done" =>
        /\ \A o \in RefMappings(p_spec) :
              ~Resolvable(p_spec, o) => ResolveRef(p_spec, o, 1) = o
        /\ IsRaise(p_result) => SelfReferential(p_spec)
        /\ p_result.t = "spec" =>
              /\ EndpointKeys(p_result.endpoints) = PairsPresent(p_spec)
              /\ \A i \in DOMAIN p_result.endpoints :
                    LET endpoint == p_result.endpoints[i]
                        operation == OperationOf(p_spec, endpoint)
                    IN  /\ Settled(p_spec, DeclaredRequestSchema(operation),
                                   endpoint.request_body_schema)
                        /\ Settled(p_spec, DeclaredResponseSchema(operation),
                                   endpoint.response_schema)

\* an Endpoint whose request schema is the unresolvable literal while its
\* response schema was resolved to the target, next to another Endpoint
C4_Witness ==
    /\ Parsed
    /\ Len(p_result.endpoints) >= 2
    /\ \E i \in DOMAIN p_result.endpoints :
          LET endpoint == p_result.endpoints[i]
              operation == OperationOf(p_spec, endpoint)
          IN  /\ IsRefMapping(endpoint.request_body_schema)
              /\ ~Resolvable(p_spec, endpoint.request_body_schema)
              /\ IsRefMapping(DeclaredResponseSchema(operation))
              /\ endpoint.response_schema = PetObject

----------------------------------------------------------------------------
(* What the claims about the registry speak of *)

\* the last step completed a register_api call whose fetch or parse failed
FailedRegistration == r_event.kind = "finish" /\ r_event.error # ""

\* the tokens of a string value
Tokens(v) == IF v.t = "str" THEN {v.s[i] : i \in 1..Len(v.s)} ELSE {}

\* the positions of the configuration list
Listed == 1..Len(lc_apis)

\* the step leaves what is stored under every name but `name` as it was
OthersUnchanged(name) ==
    /\ \A other \in DOMAIN r_apis \ {name} :
          other \in DOMAIN r_apis' /\ r_apis'[other] = r_apis[other]
    /\ \A other \in DOMAIN r_specs \ {name} :
          other \in DOMAIN r_specs' /\ r_specs'[other] = r_specs[other]

\* C5: when the fetch or the parse of a register_api call fails, the call does
\* not raise; the name keeps its APIConfig and gets a ParsedSpec whose title is
\* the name, whose endpoints are empty and whose description carries the text of
\* the error, and list_apis reports the name with endpoint_count 0 and that
\* description.
C5_FailedRegistrationStored ==
    FailedRegistration =>
        /\ ~r_event.raised
        /\ r_event.name \in DOMAIN r_apis
        /\ r_event.name \in DOMAIN r_specs
        /\ r_specs[r_event.name].title = JStr(<<r_event.name>>)
        /\ r_specs[r_event.name].endpoints = <<>>
        /\ r_event.error \in Tokens(r_specs[r_event.name].description)
        /\ ListApis[r_event.name].endpoint_count = 0
        /\ r_event.error \in Tokens(ListApis[r_event.name].description)

\* a call whose parse failed (the fetch succeeded) has just completed, for a
\* name that load_config listed
C5_Witness ==
    /\ FailedRegistration
    /\ r_event.error = "RecursionError"
    /\ r_event.name \in {lc_apis[i].name : i \in Listed}
    /\ r_event.name \in DOMAIN r_specs

\* C6: load_config registers every API of its list even when registrations
\* fail: once it returns, every listed name has an APIConfig and a ParsedSpec,
\* the only way it raises is the configuration file, and no step of a
\* registration touches what is stored under another name.
C6_LoadConfigRegistersAll ==
    /\ [](/\ lc_state = "done" =>
                /\ lc_index = Len(lc_apis)
                /\ \A i \in Listed : lc_apis[i].name \in DOMAIN r_apis \cap DOMAIN r_specs
          /\ lc_state = "raised" => lc_index = 0
          /\ \A i \in 1..lc_index : lc_apis[i].name \in DOMAIN r_apis \cap DOMAIN r_specs)
    /\ [][r_event'.kind \in {"begin", "finish"} => OthersUnchanged(r_event'.name)]_vars

\* load_config has returned; the first API of its list failed to load and has
\* the placeholder, the second, of another name, has its endpoints
C6_Witness ==
    /\ lc_state = "done"
    /\ Len(lc_apis) = 2
    /\ lc_apis[1].spec_url = DownUrl
    /\ lc_apis[2].spec_url = GoodUrl
    /\ lc_apis[1].name # lc_apis[2].name
    /\ r_calls = {} /\ r_started = 0
    /\ r_specs[lc_apis[1].name].endpoints = <<>>
    /\ r_specs[lc_apis[2].name].endpoints # <<>>

\* C7: every name of get_api_names has an APIConfig and a ParsedSpec: the keys
\* of _apis are the keys of _specs, and get_spec is not None for a listed name.
C7_OneConfigOneSpec ==
    /\ DOMAIN r_apis = DOMAIN r_specs
    /\ \A name \in GetApiNames : GetSpec(name) # JNull

----------------------------------------------------------------------------
(* What the claims about the search providers speak of *)

\* a search call has returned a list of results
Returned == s_call.provider \in {"fuzzy", "embedding"} /\ s_call.raised = ""

\* the positions of a list of results
Ranks(results) == 1..Len(results)

\* the same results in the same order, every flag of `lower` set in `higher`
OnlyAddsFlags(lower, higher) ==
    /\ Len(higher) = Len(lower)
    /\ \A i \in Ranks(lower) :
          /\ higher[i].position = lower[i].position
          /\ higher[i].endpoint = lower[i].endpoint
          /\ higher[i].similarity_score = lower[i].similarity_score
          /\ lower[i].low_confidence => higher[i].low_confidence

\* what the call that has returned returns under another threshold
ResultsUnder(threshold) ==
    IF s_call.provider = "fuzzy"
    THEN FuzzySearchResults(s_call.ratio, threshold, s_call.query, s_call.endpoints,
                            s_call.limit)
    ELSE EmbeddingSearchResults(e_cache, threshold, s_call.query, s_call.endpoints,
                                s_call.limit)

\* C8: a search that returns, of either provider, with a limit N >= 1, returns
\* min(N, number of endpoints) results; the endpoint of each result is the
\* element of the input list at the result's position, and no position of the
\* input list is returned twice.
C8_ResultCount ==
    (Returned /\ s_call.limit >= 1) =>
        /\ Len(s_call.results) =
              (IF s_call.limit < Len(s_call.endpoints) THEN s_call.limit
               ELSE Len(s_call.endpoints))
        /\ \A i \in Ranks(s_call.results) :
              /\ s_call.results[i].position \in 1..Len(s_call.endpoints)
              /\ s_call.results[i].endpoint = s_call.endpoints[s_call.results[i].position]
        /\ \A i, j \in Ranks(s_call.results) :
              s_call.results[i].position = s_call.results[j].position => i = j

\* the embedding provider was given two endpoints of one cache key with limit
\* 1 and returned one result
C8_Witness ==
    /\ Returned
    /\ s_call.provider = "embedding"
    /\ s_call.endpoints = <<ListPets, FindPets>>
    /\ s_call.limit = 1
    /\ Len(s_call.results) = 1

\* C9: the results of FuzzySearchProvider.search are in descending order of
\* similarity_score, and results of equal score are in the order their
\* endpoints have in the input list.
C9_DescendingStable ==
    (Returned /\ s_call.provider = "fuzzy") =>
        \A i, j \in Ranks(s_call.results) :
            i < j =>
                /\ s_call.results[i].similarity_score >= s_call.results[j].similarity_score
                /\ s_call.results[i].similarity_score = s_call.results[j].similarity_score
                      => s_call.results[i].position < s_call.results[j].position

\* the fuzzy provider returned two different endpoints of equal score, the
\* first of the input first
C9_Witness ==
    /\ Returned
    /\ s_call.provider = "fuzzy"
    /\ Len(s_call.results) = 2
    /\ s_call.results[1].similarity_score = s_call.results[2].similarity_score
    /\ s_call.results[1].endpoint # s_call.results[2].endpoint
    /\ s_call.results[1].position = 1

\* C10: low_confidence of every returned result is similarity_score <
\* confidence_threshold, strictly; under a higher threshold the same call
\* returns the same results in the same order, with at least the same flags.
C10_FlaggedNotDiscarded ==
    Returned =>
        /\ \A i \in Ranks(s_call.results) :
              s_call.results[i].low_confidence
                  <=> s_call.results[i].similarity_score < s_threshold
        /\ \A threshold \in Thresholds :
              threshold >= s_threshold =>
                  OnlyAddsFlags(s_call.results, ResultsUnder(threshold))

\* under the default threshold a call returned a result below the threshold,
\* flagged, and a result exactly at the threshold, not flagged
C10_Witness ==
    /\ Returned
    /\ s_threshold = DefaultThreshold
    /\ \E i, j \in Ranks(s_call.results) :
          /\ s_call.results[i].similarity_score = DefaultThreshold
          /\ ~s_call.results[i].low_confidence
          /\ s_call.results[j].similarity_score < DefaultThreshold
          /\ s_call.results[j].low_confidence

\* what a provider constructed for this call, its cache empty, returns
FreshResults ==
    EmbeddingSearchResults(EnsureEmbeddings(<<>>, s_call.endpoints), s_threshold,
                           s_call.query, s_call.endpoints, s_call.limit)

\* C11: whatever searches the EmbeddingSearchProvider served before, a search
\* returns what a provider with an empty cache returns for the same query,
\* endpoints and limit.
C11_CacheOnlyLatency ==
    (Returned /\ s_call.provider = "embedding") => s_call.results = FreshResults

----------------------------------------------------------------------------
(* What the claims about several provider instances speak of *)

\* the last step was a search of an instance that used a model
SearchedWithModel == x_event.kind = "search" /\ x_event.raised = ""

\* C12: the model an EmbeddingSearchProvider searches with is the model of its
\* own model_name, whatever other instances of the process loaded before.
C12_InstanceScoped ==
    SearchedWithModel => x_event.model = x_providers[x_event.instance].model_name

\* C13: the model is loaded by use only and at most once: constructing a
\* provider neither loads it nor fails, with or without the dependency; only a
\* search on a non-empty list sets it; a search that finds it unset and cannot
\* load it raises to its caller and leaves it unset; once set it never changes.
C13_LazyLoadOnce ==
    [][/\ x_event'.kind = "construct" => (e_model' = e_model /\ x_event'.raised = "")
       /\ e_model' # e_model => (x_event'.kind = "search" /\ x_event'.loaded)
       /\ (x_event'.kind = "search" /\ e_model = "none" /\ ~e_available)
             => (x_event'.raised = "ImportError" /\ e_model' = "none")
       /\ x_event'.raised # "" => (x_event'.kind = "search" /\ e_model' = "none")
       /\ e_model # "none" => e_model' = e_model]_vars

\* a provider has searched with the model of its model_name, loaded by an
\* earlier search, and has filled its cache
C13_Witness ==
    /\ SearchedWithModel
    /\ ~x_event.loaded
    /\ e_model = x_providers[x_event.instance].model_name
    /\ x_providers[x_event.instance].cache # <<>>

----------------------------------------------------------------------------
(* What the claim about _cosine_similarity speaks of *)

\* 1.0 and 0.5 as floats
FloatOne == [m |-> Pow2(MantissaBits - 1), e |-> 1 - MantissaBits]
FloatHalf == [m |-> Pow2(MantissaBits - 1), e |-> 0 - MantissaBits]

\* 0 <= x <= 1
InUnitInterval(x) == x.m = 0 \/ (x.m > 0 /\ (x.e < 1 - MantissaBits \/ x = FloatOne))

ZeroVector == <<0, 0>>
Opposite(a) == <<0 - a[1], 0 - a[2]>>

\* C14: _cosine_similarity returns 1.0 for identical vectors, 0.5 for
\* orthogonal ones, 0.0 for opposite ones, exactly 0.0 when either vector has
\* zero magnitude, and always a value of [0, 1].
C14_CosineRemap ==
    c_score # NoScore =>
        /\ (c_a = ZeroVector \/ c_b = ZeroVector) => c_score = FloatZero
        /\ (c_a # ZeroVector /\ c_b = c_a) => c_score = FloatOne
        /\ (c_a # ZeroVector /\ c_b = Opposite(c_a)) => c_score = FloatZero
        /\ (c_a # ZeroVector /\ c_b # ZeroVector /\ c_a[1] * c_b[1] + c_a[2] * c_b[2] = 0)
              => c_score = FloatHalf
        /\ InUnitInterval(c_score)

----------------------------------------------------------------------------
(* What the claim about concurrent searches speaks of *)

\* what the call of a thread returns when it runs alone on the provider
Alone(thread) ==
    EmbeddingSearchResults(EnsureEmbeddings(<<>>, k_calls[thread].endpoints),
                           DefaultThreshold, k_calls[thread].query,
                           k_calls[thread].endpoints, k_calls[thread].limit)

\* the cache after the two calls one after the other, `first` first
OneAfterTheOther(first, second) ==
    EnsureEmbeddings(EnsureEmbeddings(<<>>, k_calls[first].endpoints),
                     k_calls[second].endpoints)

AllDone == \A thread \in Threads : k_calls[thread].pc = "done"

\* C15: without a lock, each of two concurrent searches on one provider
\* returns what it returns alone, and the cache ends the same whichever call
\* wrote an entry first.
C15_NoLockNeeded ==
    k_calls # <<>> =>
        /\ \A thread \in Threads :
              k_calls[thread].pc = "done" => k_calls[thread].results = Alone(thread)
        /\ AllDone => (k_cache = OneAfterTheOther("a", "b")
                       /\ k_cache = OneAfterTheOther("b", "a"))

----------------------------------------------------------------------------
(* What the claim about Guardrails speaks of *)

\* a check_operation call has returned
Checked == g_call # NoCheck

\* the list the object was configured with: the custom one when one was given
ConfiguredList ==
    IF g_argument.given THEN g_argument.list ELSE <<"DELETE", "PUT", "PATCH">>

\* two spellings of one method
SameMethod(a, b) == Upper(a) = Upper(b)

InConfiguredList ==
    \E i \in 1..Len(ConfiguredList) : SameMethod(ConfiguredList[i], g_call.method)

\* the text has the piece, for some spelling of it
Mentions(text, piece) == \E i \in 1..Len(text.s) : SameMethod(text.s[i], piece)

(* C16 : check_operation allows exactly the calls whose method, letter case
   aside, is not in the configured destructive list or that are confirmed;
   the warning is there exactly when the call is refused, and then it names
   the method and 'confirmed=true'. *)
C16_CheckOperation ==
    Checked =>
        /\ g_result.allowed <=> (~InConfiguredList \/ g_call.confirmed)
        /\ g_result.warning # JNull <=> ~g_result.allowed
        /\ ~g_result.allowed =>
              /\ Mentions(g_result.warning, g_call.method)
              /\ Mentions(g_result.warning, "confirmed=true")

\* a lower-case delete refused under a custom list that spells it Delete
C16_Witness ==
    /\ Checked
    /\ g_argument = Argument(<<"Delete", "POST">>)
    /\ g_call.method = "delete"
    /\ ~g_call.confirmed
    /\ ~g_result.allowed
    /\ g_result.warning # JNull

----------------------------------------------------------------------------
(* What the claim about the tools speaks of *)

ToolCalled == t_call # NoToolCall

\* DELETE, PUT or PATCH in any letter case
DestructiveSpelling(method) == Upper(method) \in {"DELETE", "PUT", "PATCH"}

\* the call is an execute_endpoint of a destructive method without confirmed=true
UnconfirmedDestructive ==
    /\ t_call.tool = "execute_endpoint"
    /\ DestructiveSpelling(t_call.method)
    /\ ~t_call.confirmed

UnconfirmedBatch == t_call.tool = "batch_execute" /\ ~t_call.confirmed

\* no request of the call is one it had to be confirmed for
NoUnconfirmedRequest ==
    /\ UnconfirmedBatch => t_issued = <<>>
    /\ t_call.tool = "execute_endpoint" =>
          \A i \in 1..Len(t_issued) :
              DestructiveSpelling(t_issued[i].method) => t_call.confirmed

(* C17 as stated : no tool call sends a request for an unconfirmed
   destructive operation, and every unconfirmed call returns the warning or
   the confirmation_required response. *)
C17_NoUnconfirmedDestructive ==
    ToolCalled =>
        /\ NoUnconfirmedRequest
        /\ UnconfirmedDestructive => t_response.kind = "destructive_warning"
        /\ UnconfirmedBatch => t_response.kind = "confirmation_required"

(* C17 amended : no tool call sends a request for an unconfirmed destructive
   operation; the unconfirmed call returns the warning or the
   confirmation_required response when the api has an executor, and the
   "API not found" error when it has none. *)
C17_NoUnconfirmedDestructiveKnownApi ==
    ToolCalled =>
        /\ NoUnconfirmedRequest
        /\ UnconfirmedDestructive =>
              t_response.kind = IF t_call.api \in t_executors
                                THEN "destructive_warning" ELSE "error"
        /\ UnconfirmedBatch =>
              t_response.kind = IF t_call.api \in t_executors
                                THEN "confirmation_required" ELSE "error"

\* a mixed-case Delete on a known api, not confirmed, answered by the warning
C17_Witness ==
    /\ t_call.tool = "execute_endpoint"
    /\ t_call.api \in t_executors
    /\ t_call.method = "Delete"
    /\ ~t_call.confirmed
    /\ t_issued = <<>>
    /\ t_response.kind = "destructive_warning"

----------------------------------------------------------------------------
(* What the claim about execute_batch speaks of *)

BatchReturned == b_call # NoBatchCall /\ b_result # NoBatchResult

\* the result counts as succeeded
Succeeded(result) == result.status_code \in 200..399

RECURSIVE CountSucceeded(_)
CountSucceeded(results) ==
    IF results = <<>> THEN 0
    ELSE (IF Succeeded(Head(results)) THEN 1 ELSE 0) + CountSucceeded(Tail(results))

(* C18 : execute_batch returns, parallel or sequential, one ExecutionResult
   per request in the order of the requests list, with summary.total the
   number of requests, succeeded + failed = total, and succeeded the number
   of results with 200 <= status_code < 400, so that status_code 0 counts as
   failed. *)
C18_BatchResult ==
    BatchReturned =>
        /\ Len(b_result.results) = Len(b_call.requests)
        /\ \A i \in 1..Len(b_call.requests) :
              /\ b_result.results[i].data = b_call.requests[i]
              /\ b_result.results[i].status_code \in BatchStatusCodes
        /\ b_result.summary.total = Len(b_call.requests)
        /\ b_result.summary.succeeded + b_result.summary.failed = b_result.summary.total
        /\ b_result.summary.succeeded = CountSucceeded(b_result.results)

\* a parallel batch of two different requests whose second response came
\* first, one of them a connection failure
C18_Witness ==
    /\ BatchReturned
    /\ b_call.parallel
    /\ b_call.requests = <<"/a", "/b">>
    /\ b_order = <<2, 1>>
    /\ b_result.results[1].status_code = 0
    /\ b_result.results[2].status_code = 399
    /\ b_result.summary = [total |-> 2, succeeded |-> 1, failed |-> 1]

----------------------------------------------------------------------------
(* What the claims about the two dialects speak of *)

\* parse has returned a ParsedSpec
IsParsed(result) == result # JNull /\ result.t = "spec"

ParameterLocations == {S("path"), S("query"), S("header"), S("cookie")}

\* every Parameter of every Endpoint of the ParsedSpec has a known location
LocationsKnown(result) ==
    \A i \in 1..Len(result.endpoints) :
        \A j \in 1..Len(result.endpoints[i].parameters) :
            result.endpoints[i].parameters[j].location \in ParameterLocations

(* C19 : every Parameter of every Endpoint extracted from an OpenAPI 3.x or
   a Swagger 2.0 document has its location in {path, query, header, cookie}. *)
C19_LocationsKnown ==
    /\ IsParsed(d_parsed_swagger) => LocationsKnown(d_parsed_swagger)
    /\ IsParsed(d_parsed_openapi) => LocationsKnown(d_parsed_openapi)

(* C20 : a Swagger 2.0 document with its schemas under definitions and the
   OpenAPI 3 document with the same schemas under components.schemas and the
   same operations parse to equal endpoint lists. *)
C20_DialectsAgree ==
    (IsParsed(d_parsed_swagger) /\ IsParsed(d_parsed_openapi)) =>
        d_parsed_swagger.endpoints = d_parsed_openapi.endpoints

----------------------------------------------------------------------------
(* What the claim about repeated resolution speaks of *)

\* the first call has returned a value
ResolvedOnce == r_once # NotCalled /\ ~IsRaise(r_once)

(* C21 : _resolve_ref returns an object without "$ref" at any depth as it
   is, resolving the result of a call that returned gives that result again,
   and no call changes the object it was given or the document it walks. *)
C21_Idempotent ==
    /\ [](/\ (ResolvedOnce /\ RefFree(r_obj)) => r_once = r_obj
          /\ r_twice # NotCalled => r_twice = r_once)
    /\ [][r_spec' = r_spec /\ r_obj' = r_obj]_vars

\* a pointer whose target holds a further pointer, resolved and resolved again
C21_Witness ==
    /\ r_obj = RefInMapping
    /\ r_spec.d["components"].d["schemas"].d["Pet"] = RefNode
    /\ r_spec.d["components"].d["schemas"].d["Node"] = PlainString
    /\ ResolvedOnce
    /\ r_once # r_obj
    /\ r_twice = r_once

----------------------------------------------------------------------------
(* What the claim about the searchable text speaks of *)

\* the words of an operationId, each in lower case
LowerWords(op_id) ==
    LET words == CamelWords(op_id, <<>>, <<>>)
    IN  [i \in 1..Len(words) |-> StrLower(words[i])]

\* the path with each of "/", "{" and "}" replaced by a space
PathSpaced(path) ==
    [i \in 1..Len(path) |-> IF path[i] \in {"/", "{", "}"} THEN " " ELSE path[i]]

\* the text the claim describes
DescribedText(endpoint) ==
    Join((IF endpoint.summary # <<>> THEN <<endpoint.summary>> ELSE <<>>)
         \o (IF endpoint.description # <<>> THEN <<endpoint.description>> ELSE <<>>)
         \o (IF endpoint.operation_id # <<>>
             THEN <<Join(LowerWords(endpoint.operation_id), <<" ">>)>> ELSE <<>>)
         \o endpoint.tags
         \o <<PathSpaced(endpoint.path)>>
         \o <<StrLower(endpoint.method)>>,
         <<" ">>)

(* C22 : both providers build the same searchable text for an endpoint, the
   space-joined summary, description, operationId in lower-case words, tags,
   path with "/", "{" and "}" each replaced by a space, and lower-case
   method. *)
C22_SearchableText ==
    /\ w_fuzzy.built => w_fuzzy.text = DescribedText(w_endpoint)
    /\ w_embedding.built => w_embedding.text = DescribedText(w_endpoint)
    /\ (w_fuzzy.built /\ w_embedding.built) => w_fuzzy.text = w_embedding.text

----------------------------------------------------------------------------
(* What the claims about request and response schemas speak of *)

OperationParsed == o_endpoint # JNull /\ ~IsRaise(o_endpoint)

\* the application/json media type of a request body or response, the
\* reference to the body or response followed
JsonMediaType(holder) ==
    Get(Get(ResolveRef(SchemaDocument, holder, 1), "content", EmptyDict),
        "application/json", EmptyDict)

\* the operation has a requestBody with a schema for application/json
HasRequestBodySchema ==
    /\ "requestBody" \in DOMAIN o_operation.d
    /\ "schema" \in DOMAIN JsonMediaType(o_operation.d["requestBody"]).d

\* the parameters in the order path level, operation level
AllParameters == o_path_params \o Get(o_operation, "parameters", JList(<<>>)).l

BodyParameters ==
    SelectSeq(AllParameters, LAMBDA param : Get(param, "in", JNull) = S("body"))

(* C23 : request_body_schema is the resolved schema of the application/json
   requestBody whenever the operation has one, otherwise the resolved schema
   of the first parameter with in = body, path-level ones first, and None
   when there is neither. *)
C23_RequestBodySchema ==
    OperationParsed =>
        o_endpoint.request_body_schema =
            IF HasRequestBodySchema
            THEN ResolveRef(SchemaDocument,
                            JsonMediaType(o_operation.d["requestBody"]).d["schema"], 1)
            ELSE IF BodyParameters # <<>>
            THEN ResolveRef(SchemaDocument, Head(BodyParameters).d["schema"], 1)
            ELSE JNull


\* the responses of the operation
OperationResponses == Get(o_operation, "responses", EmptyDict)

\* the response under the key is present and non-empty
Usable(key) == key \in DOMAIN OperationResponses.d /\ Truthy(OperationResponses.d[key])

\* the one response the schema is taken from: the first usable one in the
\* order "200", "201", "default"; NoEntry when none is usable
ChosenResponse ==
    IF Usable("200") THEN OperationResponses.d["200"]
    ELSE IF Usable("201") THEN OperationResponses.d["201"]
    ELSE IF Usable("default") THEN OperationResponses.d["default"]
    ELSE NoEntry

(* C24 : response_schema comes from exactly one response, the first present
   and non-empty among "200", "201", "default": the resolved schema of its
   application/json content, or failing that its resolved inline schema, and
   nothing of a later response; None when none of the three is usable. *)
C24_ResponseSchema ==
    OperationParsed =>
        IF ChosenResponse = NoEntry THEN o_endpoint.response_schema = JNull
        ELSE IF "schema" \in DOMAIN JsonMediaType(ChosenResponse).d
        THEN o_endpoint.response_schema =
                ResolveRef(SchemaDocument, JsonMediaType(ChosenResponse).d["schema"], 1)
        ELSE IF ~Truthy(JsonMediaType(ChosenResponse)) /\ "schema" \in DOMAIN ChosenResponse.d
        THEN o_endpoint.response_schema =
                ResolveRef(SchemaDocument, ChosenResponse.d["schema"], 1)
        ELSE ~Truthy(o_endpoint.response_schema)

\* "200" is there with a description and no schema, "201" and "default" have
\* schemas: the endpoint has no response schema
C24_Witness ==
    /\ OperationParsed
    /\ OperationResponses.d = ("200" :> DescriptionOnly @@ "201" :> JsonResponse(PlainString)
                               @@ "default" :> InlineResponse(PetObject))
    /\ o_endpoint.response_schema = JNull

----------------------------------------------------------------------------
(* What the claim about the cache entries speaks of *)

\* every entry of the cache is the model output for the text recorded under
\* the same key
EntriesMatchTexts ==
    \A key \in DOMAIN e_cache :
        key \in DOMAIN e_texts /\ e_cache[key] = Encode(e_texts[key])

\* the step is a clear_cache: both mappings are emptied
Cleared == e_cache' = <<>> /\ e_texts' = <<>>

\* the texts of the endpoints of the call that have the key
TextsOfKey(endpoints, key) ==
    {BuildSearchableText(endpoints[i]) :
        i \in {j \in 1..Len(endpoints) : GetEndpointKey(endpoints[j]) = key}}

\* what a step may do to the cache: keep every entry and its text as they
\* are, and add entries only for endpoints of the call whose key was missing
EntriesKept ==
    /\ DOMAIN e_cache \subseteq DOMAIN e_cache'
    /\ \A key \in DOMAIN e_cache :
          e_cache'[key] = e_cache[key] /\ e_texts'[key] = e_texts[key]
    /\ \A key \in DOMAIN e_cache' \ DOMAIN e_cache :
          /\ s_call'.provider = "embedding"
          /\ e_texts'[key] \in TextsOfKey(s_call'.endpoints, key)

(* C25 : each cache entry holds the model output for the text recorded under
   its key; a search adds entries only for the endpoints whose key was
   missing and leaves every existing entry and text as they were; only
   clear_cache removes entries, and it empties embeddings and texts. *)
C25_CacheEntries == []EntriesMatchTexts /\ [][EntriesKept \/ Cleared]_vars

\* a search of two endpoints, one of them under a key that an earlier search
\* had filled from another text
C25_Witness ==
    /\ Returned /\ s_call.provider = "embedding"
    /\ s_call.endpoints = <<DeletePet, ListPets>>
    /\ DOMAIN e_cache = {GetEndpointKey(ListPets), GetEndpointKey(DeletePet)}
    /\ e_texts[GetEndpointKey(ListPets)] = BuildSearchableText(FindPets)
    /\ e_cache[GetEndpointKey(ListPets)] = <<4, 3>>
    /\ e_cache[GetEndpointKey(DeletePet)] = <<-4, 3>>

----------------------------------------------------------------------------
(* What the claim about the semaphore of a parallel batch speaks of *)

ParallelRunning == BatchRunning /\ b_call.parallel

\* the calls to execute that have begun and have not returned
ExecuteInFlight == Cardinality({i \in 1..Len(b_tasks) : b_tasks[i] = "running"})

\* while the batch runs, a request goes from waiting to being executed and
\* from being executed to done, and no other way
ExecutedOnce ==
    BatchRunning =>
        \A i \in 1..Len(b_tasks) :
            \/ b_tasks'[i] = b_tasks[i]
            \/ b_tasks[i] = "waiting" /\ b_tasks'[i] = "running"
            \/ b_tasks[i] = "running" /\ b_tasks'[i] = "done"

\* request i of the running parallel batch has been executed
Served(i) ==
    i <= Len(b_tasks) /\ b_tasks[i] = "done" /\ b_results[i].data = b_call.requests[i]

(* C26 : during a parallel execute_batch of a BatchExecutor built with
   concurrency c >= 1, never more than c calls to execute are in flight, each
   request is executed once, and every request of the batch is eventually
   executed. *)
C26_SemaphoreBoundAndService ==
    /\ [](ParallelRunning => ExecuteInFlight <= b_call.concurrency)
    /\ [][ExecutedOnce]_vars
    /\ \A i \in 1..MaxRequests :
          (ParallelRunning /\ b_call.concurrency >= 1 /\ i <= Len(b_tasks)) ~> Served(i)

(* C26 as stated, for every concurrency c: every request of a parallel batch
   is eventually executed. *)
C26_EveryConcurrency ==
    \A i \in 1..MaxRequests : (ParallelRunning /\ i <= Len(b_tasks)) ~> Served(i)

\* concurrency 1 and two requests: the second was executed first, and the
\* first, which waited for the semaphore meanwhile, is now in flight alone
C26_Witness ==
    /\ ParallelRunning
    /\ b_call.concurrency = 1
    /\ Len(b_call.requests) = 2
    /\ b_order = <<2>>
    /\ b_tasks = <<"running", "done">>

----------------------------------------------------------------------------
(* What the claim about overlapping registrations of one name speaks of *)

\* a register_api call for the name is suspended at its await
RegistrationInFlight(name) ==
    \/ \E config \in r_calls : config.name = name
    \/ lc_state = "awaiting" /\ lc_apis[lc_index + 1].name = name

\* the ParsedSpec the register_api call with this configuration stores
SpecOfCall(config) ==
    IF IsRaise(ParseOutcomes[config.spec_url])
    THEN PlaceholderSpec(config.name, ParseOutcomes[config.spec_url].exc)
    ELSE ParseOutcomes[config.spec_url]

\* for every name with no call in flight, get_api and get_spec give the
\* configuration and the spec of one call
ConfigAndSpecOfOneCall ==
    \A name \in DOMAIN r_apis :
        ~RegistrationInFlight(name) =>
            /\ name \in DOMAIN r_specs
            /\ r_specs[name] = SpecOfCall(r_apis[name])

(* C27 : when the overlapping register_api calls for one name have completed
   (no task is cancelled), the stored APIConfig and the stored ParsedSpec of
   the name come from the same call, whatever the order in which the fetches
   finish. *)
C27_ConfigAndSpecTogether == ConfigAndSpecOfOneCall

----------------------------------------------------------------------------
(* What the claim about the shared parser speaks of *)

\* what parse gives for a document on a parser nobody else uses
ParsedAlone(raw_spec) == ParseDocument(raw_spec, CanonicalOrder)

(* C28 : with several parse calls in flight on the one parser of a registry,
   each call returns the endpoints of its document with the references
   resolved in that document, as if no other call were in flight; and when a
   call returns, _spec and _components are those of its document. *)
C28_OwnDocument ==
    /\ [](\A i \in 1..Len(q_calls) :
             /\ q_calls[i].state = "returned" => q_results[i] = ParsedAlone(q_calls[i].fetched)
             /\ q_calls[i].state = "raised" => q_results[i] = q_calls[i].fetched
             /\ q_calls[i].state = "fetching" => q_results[i] = NotCalled)
    /\ [][\A i \in 1..Len(q_calls) :
             (q_calls[i].state = "fetching" /\ q_calls'[i].state = "returned") =>
                 /\ q_spec' = q_calls[i].fetched
                 /\ q_components' = ComponentsOf(q_calls[i].fetched)]_vars

\* two calls that overlapped, the second fetch ending first, on documents
\* that define Pet differently: each result has its own Pet
C28_Witness ==
    /\ q_log = <<<<"begin", 1>>, <<"begin", 2>>, <<"end", 2>>, <<"end", 1>>>>
    /\ Get(ComponentsOf(q_calls[1].fetched), "Pet", JNull) = PetObject
    /\ Get(ComponentsOf(q_calls[2].fetched), "Pet", JNull) = PlainString
    /\ ~IsRaise(q_results[1]) /\ ~IsRaise(q_results[2])
    /\ q_results[1].endpoints[1].response_schema = PetObject
    /\ q_results[2].endpoints[1].response_schema = PlainString
    /\ q_spec = q_calls[1].fetched

----------------------------------------------------------------------------
(* What the claim about a search overlapping clear_cache speaks of *)

\* the endpoints of the input list that have a result
EndpointsScored(call) == {call.results[i].endpoint : i \in 1..Len(call.results)}

(* C29 : a semantic search that overlaps with clear_cache returns a result
   for every endpoint it was given, up to limit: as many results as the
   smaller of limit and the length of the list, and, when the list is no
   longer than limit, one for each of its endpoints. *)
C29_NoEndpointLeftOut ==
    \A thread \in Threads :
        k_calls[thread].pc = "done" =>
            /\ Len(k_calls[thread].results)
                   = IF Len(k_calls[thread].endpoints) < k_calls[thread].limit
                     THEN Len(k_calls[thread].endpoints) ELSE k_calls[thread].limit
            /\ Len(k_calls[thread].endpoints) <= k_calls[thread].limit =>
                   \A i \in 1..Len(k_calls[thread].endpoints) :
                       k_calls[thread].endpoints[i] \in EndpointsScored(k_calls[thread])

----------------------------------------------------------------------------
(* What the claim about lazy initialization speaks of *)

\* the body of the last tool call ran
ToolBodyRan == z_view # NoView

\* it found every configured API registered, parsed and with its executor
CompleteView ==
    /\ z_view.apis = {z_config[i] : i \in 1..Len(z_config)}
    /\ z_view.specs = z_view.apis
    /\ z_view.executors = z_view.apis

(* C30 : with lazy initialization no tool call observes a partially
   initialized system: the body of every tool call, also of one that arrives
   while another call is inside initialize(), runs on all configured APIs
   registered with their executors; and initialize() runs at most once. *)
C30_NoPartialView == (ToolBodyRan => CompleteView) /\ z_runs <= 1

=============================================================================
